---- MODULE Spec2Model ----
(***************************************************************************)
(* The outbound mail flow of frappe/mail: the Outgoing Mail table, the     *)
(* two transfer operations (transfer_now, transfer_mails), the operator    *)
(* retries, the status reconciler (get_outgoing_mails_status) fed by the   *)
(* sending agent, and the submission APIs with the newsletter queue.       *)
(***************************************************************************)
EXTENDS Integers, Sequences, FiniteSets, TLC

----------------------------------------------------------------------------
(* Bounds of the model *)

\* wall-clock readings (now(), action_at) range over 1..MaxTime; 0 is NULL
MaxTime == 2
\* status hooks the agent emits in one behaviour of Spec
MaxHooks == 2
\* status hooks the agent emits in one behaviour of SpecTransfer
MaxRaceHooks == 1
\* operator retries (retry_failed_mail, retry_bounced_mail) in one behaviour
MaxRetryCalls == 1
\* Mail Settings "max_batch_size" of transfer_mails
max_batch_size == 2
\* batch_size of process_newsletter_queue
batch_size == 2

(* Program constants *)
max_failures == 3

NULL == 0
Times == 1..MaxTime

----------------------------------------------------------------------------
(* The Outgoing Mail table *)

MailStatuses ==
    {"Pending", "Transferring", "Transferred", "Queued", "Sent",
     "Partially Sent", "Deferred", "Bounced", "Failed"}

\* a Mail Recipient row before any hook has reported on it
BlankRecipient ==
    [status |-> "", retries |-> 0, action_at |-> NULL, action_after |-> NULL,
     details |-> "" ]

\* a submitted Outgoing Mail as on_submit leaves it: docstatus 1, Pending
NewDoc(emails, newsletter, root, at) ==
    [status |-> "Pending", error_log |-> FALSE, transferred_at |-> NULL,
     agent |-> "", queue_id |-> "", is_newsletter |-> newsletter,
     root_domain |-> root, submitted_at |-> at,
     recipients |-> [e \in emails |-> BlankRecipient]]

VARIABLES
    mails,      \* tabOutgoing Mail (submitted rows): name -> document
    tn,         \* transfer_now job of each mail: its position
    tm,         \* the transfer_mails run: position, batch, total_failures
    outq,       \* OUTGOING_MAIL_QUEUE
    agentHas,   \* mails the sending agent has taken from OUTGOING_MAIL_QUEUE
    statusq,    \* OUTGOING_MAIL_STATUS_QUEUE
    goms,       \* the get_outgoing_mails_status run: position, last log title
    hooksLeft,  \* hooks the agent may still emit
    retried,    \* operator retries so far
    nlq,        \* NEWSLETTER_QUEUE
    pnq,        \* the process_newsletter_queue run
    api,        \* result of each submission API call
    site,       \* Mail Domain, Mail Alias, Mailbox and Mail Settings records
    inq,        \* INCOMING_MAIL_QUEUE
    delivered_in, \* messages the receiving agent has put on INCOMING_MAIL_QUEUE
    gim,        \* the get_incoming_mails run: position, last log title
    incoming,   \* tabIncoming Mail, in order of insertion
    bounces,    \* Outgoing Mails created by log_rejected_mail
    clock,      \* now()
    histories,  \* tabMail Sync History
    pullc,      \* the pull / pull_raw request of each client
    pulls,      \* responses of the pull API so far
    pool,       \* RabbitMQConnectionPool._pool: the idle connections
    conns,      \* every RabbitMQ connection created so far
    threads,    \* each thread's position in a rabbitmq_context block
    entered,    \* rabbitmq_context blocks entered so far
    tracked,    \* the tracking columns of tabOutgoing Mail
    openc,      \* the open-tracking request of each caller
    opened,     \* calls of the open-tracking endpoint so far
    rq,         \* background jobs of the site (queued or started)
    ticks,      \* scheduler ticks so far
    args,       \* the document handed to a validation
    verdict,    \* what the validation said
    dkim_keys,  \* tabDKIM Key, in order of insertion
    dkimc       \* each create_dkim_key call's position

vars == <<mails, tn, tm, outq, agentHas, statusq, goms, hooksLeft, retried,
          nlq, pnq, api, site, inq, delivered_in, gim, incoming, bounces,
          clock, histories, pullc, pulls, pool, conns, threads, entered,
          tracked, openc, opened, rq, ticks, args, verdict, dkim_keys, dkimc>>

submitVars == <<nlq, pnq, api>>
pipelineVars == <<tn, tm, outq, agentHas, statusq, goms, hooksLeft, retried>>
intakeVars == <<site, inq, delivered_in, gim, bounces>>
pullVars == <<histories, pullc, pulls>>
inboundVars == <<intakeVars, incoming, clock, pullVars>>
poolVars == <<pool, conns, threads, entered>>
trackVars == <<tracked, openc, opened>>
jobVars == <<rq, ticks>>
validationVars == <<args, verdict>>
dkimVars == <<dkim_keys, dkimc>>
serviceVars == <<poolVars, trackVars, jobVars, validationVars, dkimVars>>

----------------------------------------------------------------------------
(* Names *)

\* the two submitted mails of the transfer pipeline
PipelineMails == {"m1", "m2"}
\* names the submission APIs give to new mails
DirectMails == {"s1", "s2"}
NewsletterMails == {"n1", "n2"}
MailNames == PipelineMails \cup DirectMails \cup NewsletterMails

\* the agent's local queue id of a mail it has accepted
QueueIdOf(m) == IF m = "m1" THEN "Q1" ELSE "Q2"

SetToSeq(S) ==
    LET RECURSIVE Build(_)
        Build(T) == IF T = {} THEN <<>>
                    ELSE LET x == CHOOSE y \in T : TRUE
                         IN  <<x>> \o Build(T \ {x})
    IN  Build(S)

----------------------------------------------------------------------------
(* OutgoingMail.update_status *)

\* a slip in the third branch: "some recipient Deferred" for "all Deferred"
DerivedStatus_some_deferred(recipients) ==
    LET sent_count ==
            Cardinality({e \in DOMAIN recipients : recipients[e].status = "Sent"})
        deferred_count ==
            Cardinality({e \in DOMAIN recipients :
                            recipients[e].status = "Deferred"})
        total == Cardinality(DOMAIN recipients)
    IN  IF sent_count = total THEN "Sent"
        ELSE IF sent_count > 0 THEN "Partially Sent"
        ELSE IF deferred_count > 0 THEN "Deferred"
        ELSE "Bounced"

\* the status derived from the recipients' statuses (status argument None)
DerivedStatus(recipients) ==
    LET sent_count ==
            Cardinality({e \in DOMAIN recipients : recipients[e].status = "Sent"})
        deferred_count ==
            Cardinality({e \in DOMAIN recipients :
                            recipients[e].status = "Deferred"})
        total == Cardinality(DOMAIN recipients)
    IN  IF sent_count = total THEN "Sent"
        ELSE IF sent_count > 0 THEN "Partially Sent"
        ELSE IF deferred_count = total THEN "Deferred"
        ELSE "Bounced"

\* update_status(status=None, db_set=False) on a loaded document
update_status(doc) == [doc EXCEPT !.status = DerivedStatus(doc.recipients)]

----------------------------------------------------------------------------
(* OutgoingMail.transfer_now: one job per mail, enqueued by on_submit or    *)
(* called by a retry                                                       *)

\* RabbitMQ.declare_queue: the x-max-priority argument of the queue
declare_queue(max_priority) == IF max_priority > 0 THEN max_priority ELSE NULL

\* RabbitMQ.publish: the priority property of the message
publish(priority) == IF priority > 0 THEN priority ELSE NULL

TransferNowMessage(m) ==
    [outgoing_mail |-> m, recipients |-> DOMAIN mails[m].recipients,
     priority |-> publish(3), x_max_priority |-> declare_queue(3),
     by |-> "transfer_now"]

\* _db_set(status="Transferring", commit=True)
tn_transferring(table, m) == [table EXCEPT ![m].status = "Transferring"]

\* _db_set(status="Transferred", transferred_at=now(), ..., commit=True)
tn_transferred(table, m, now) ==
    [table EXCEPT ![m].status = "Transferred", ![m].transferred_at = now]

\* except-branch: _db_set(status="Failed", error_log=traceback, commit=True)
tn_failed(table, m) ==
    [table EXCEPT ![m].status = "Failed", ![m].error_log = TRUE]

\* load_from_db and the guard "submitted and Pending"
TN_Load(m) ==
    /\ tn[m] = "queued"
    /\ m \in DOMAIN mails
    /\ tn' = [tn EXCEPT ![m] =
                IF mails[m].status = "Pending" THEN "flip" ELSE "idle"]
    /\ UNCHANGED <<mails, tm, outq, agentHas, statusq, goms, hooksLeft, retried>>
    /\ UNCHANGED <<submitVars, inboundVars, serviceVars>>

TN_Flip(m) ==
    /\ tn[m] = "flip"
    /\ mails' = tn_transferring(mails, m)
    /\ tn' = [tn EXCEPT ![m] = "publish"]
    /\ UNCHANGED <<tm, outq, agentHas, statusq, goms, hooksLeft, retried>>
    /\ UNCHANGED <<submitVars, inboundVars, serviceVars>>

\* declare_queue and publish succeed
TN_PublishOk(m) ==
    /\ tn[m] = "publish"
    /\ outq' = Append(outq, TransferNowMessage(m))
    /\ tn' = [tn EXCEPT ![m] = "ok"]
    /\ UNCHANGED <<mails, tm, agentHas, statusq, goms, hooksLeft, retried>>
    /\ UNCHANGED <<submitVars, inboundVars, serviceVars>>

\* the broker raises
TN_PublishFail(m) ==
    /\ tn[m] = "publish"
    /\ mails' = tn_failed(mails, m)
    /\ tn' = [tn EXCEPT ![m] = "idle"]
    /\ UNCHANGED <<tm, outq, agentHas, statusq, goms, hooksLeft, retried>>
    /\ UNCHANGED <<submitVars, inboundVars, serviceVars>>

TN_Finish(m) ==
    /\ tn[m] = "ok"
    /\ \E now \in Times : mails' = tn_transferred(mails, m, now)
    /\ tn' = [tn EXCEPT ![m] = "idle"]
    /\ UNCHANGED <<tm, outq, agentHas, statusq, goms, hooksLeft, retried>>
    /\ UNCHANGED <<submitVars, inboundVars, serviceVars>>

\* transfer_now, step by step
transfer_now_steps(m) ==
    \/ TN_Load(m)
    \/ TN_Flip(m)
    \/ TN_PublishOk(m)
    \/ TN_PublishFail(m)
    \/ TN_Finish(m)

\* transfer_now on a Pending mail as one step: the next table and queue
TransferNowResult(table, m, ok, now) ==
    IF ok THEN tn_transferred(tn_transferring(table, m), m, now)
    ELSE tn_failed(tn_transferring(table, m), m)

\* the whole transfer_now job as one step
transfer_now(m) ==
    /\ tn[m] = "queued"
    /\ m \in DOMAIN mails
    /\ tn' = [tn EXCEPT ![m] = "idle"]
    /\ IF mails[m].status # "Pending"
       THEN UNCHANGED <<mails, outq>>
       ELSE \E ok \in BOOLEAN, now \in Times :
               /\ mails' = TransferNowResult(mails, m, ok, now)
               /\ outq' = IF ok THEN Append(outq, TransferNowMessage(m)) ELSE outq
    /\ UNCHANGED <<tm, agentHas, statusq, goms, hooksLeft, retried>>
    /\ UNCHANGED <<submitVars, inboundVars, serviceVars>>

\* the retries' _db_set(status="Pending", error_log=None, commit=True)
retry_pending(table, m) ==
    [table EXCEPT ![m].status = "Pending", ![m].error_log = FALSE]

\* retry_failed_mail up to its call of transfer_now
RetryFailed_Begin(m) ==
    /\ retried < MaxRetryCalls
    /\ tn[m] = "idle"
    /\ mails[m].status = "Failed"
    /\ mails' = retry_pending(mails, m)
    /\ tn' = [tn EXCEPT ![m] = "queued"]
    /\ retried' = retried + 1
    /\ UNCHANGED <<tm, outq, agentHas, statusq, goms, hooksLeft>>
    /\ UNCHANGED <<submitVars, inboundVars, serviceVars>>

\* retry_bounced_mail up to its call of transfer_now
RetryBounced_Begin(m) ==
    /\ retried < MaxRetryCalls
    /\ tn[m] = "idle"
    /\ mails[m].status = "Bounced"
    /\ mails' = retry_pending(mails, m)
    /\ tn' = [tn EXCEPT ![m] = "queued"]
    /\ retried' = retried + 1
    /\ UNCHANGED <<tm, outq, agentHas, statusq, goms, hooksLeft>>
    /\ UNCHANGED <<submitVars, inboundVars, serviceVars>>

\* retry_failed_mail as one step: only a Failed mail; Pending, transfer_now
retry_failed_mail(m) ==
    /\ retried < MaxRetryCalls
    /\ tn[m] = "idle"
    /\ mails[m].status = "Failed"
    /\ \E ok \in BOOLEAN, now \in Times :
          /\ mails' = TransferNowResult(retry_pending(mails, m), m, ok, now)
          /\ outq' = IF ok THEN Append(outq, TransferNowMessage(m)) ELSE outq
    /\ retried' = retried + 1
    /\ UNCHANGED <<tn, tm, agentHas, statusq, goms, hooksLeft>>
    /\ UNCHANGED <<submitVars, inboundVars, serviceVars>>

\* retry_bounced_mail as one step: only a Bounced mail
retry_bounced_mail(m) ==
    /\ retried < MaxRetryCalls
    /\ tn[m] = "idle"
    /\ mails[m].status = "Bounced"
    /\ \E ok \in BOOLEAN, now \in Times :
          /\ mails' = TransferNowResult(retry_pending(mails, m), m, ok, now)
          /\ outq' = IF ok THEN Append(outq, TransferNowMessage(m)) ELSE outq
    /\ retried' = retried + 1
    /\ UNCHANGED <<tn, tm, agentHas, statusq, goms, hooksLeft>>
    /\ UNCHANGED <<submitVars, inboundVars, serviceVars>>

----------------------------------------------------------------------------
(* transfer_mails: the cron-driven batch run                               *)

\* a slip: the selection is ordered by name, not by submitted_at
get_mails_to_transfer_by_name(limit) ==
    LET pending == {m \in DOMAIN mails :
                       /\ mails[m].status = "Pending"
                       /\ DOMAIN mails[m].recipients # {}}
        RECURSIVE Take(_, _)
        Take(S, n) ==
            IF S = {} \/ n = 0 THEN <<>>
            ELSE LET first == CHOOSE m \in S : \A o \in S : m <= o
                 IN  <<first>> \o Take(S \ {first}, n - 1)
    IN  Take(pending, limit)

\* get_mails_to_transfer: submitted Pending mails (joined with their
\* recipients), ordered by submitted_at, at most limit of them
get_mails_to_transfer(limit) ==
    LET pending == {m \in DOMAIN mails :
                       /\ mails[m].status = "Pending"
                       /\ DOMAIN mails[m].recipients # {}}
        RECURSIVE Take(_, _)
        Take(S, n) ==
            IF S = {} \/ n = 0 THEN <<>>
            ELSE LET first == CHOOSE m \in S :
                        \A o \in S : mails[m].submitted_at <= mails[o].submitted_at
                 IN  <<first>> \o Take(S \ {first}, n - 1)
    IN  Take(pending, limit)

\* update_outgoing_mails: UPDATE ... WHERE status = current_status AND name IN
update_outgoing_mails(table, outgoing_mails, current_status, status, error_log) ==
    [m \in DOMAIN table |->
        IF m \in outgoing_mails /\ table[m].status = current_status
        THEN [table[m] EXCEPT !.status = status, !.error_log = error_log]
        ELSE table[m]]

Range(seq) == {seq[i] : i \in 1..Len(seq)}

\* the batch's flip: Pending -> Transferring, error_log = None, committed
tm_transferring(table, batch) ==
    update_outgoing_mails(table, Range(batch), "Pending", "Transferring", FALSE)

\* the try-block's last statement: UPDATE ... SET status = Transferred,
\* error_log = NULL, transferred_at = now() WHERE status = Transferring AND ...
tm_transferred(table, batch, now) ==
    [m \in DOMAIN table |->
        IF m \in Range(batch) /\ table[m].status = "Transferring"
        THEN [table[m] EXCEPT !.status = "Transferred", !.error_log = FALSE,
                              !.transferred_at = now]
        ELSE table[m]]

\* a slip in the except-branch: the batch is put back to Pending
tm_failed_reverting(table, batch) ==
    update_outgoing_mails(table, Range(batch), "Transferring", "Pending", TRUE)

\* the except-branch: the batch's mails still Transferring become Failed
tm_failed(table, batch) ==
    update_outgoing_mails(table, Range(batch), "Transferring", "Failed", TRUE)

\* a slip: the root domain is tested before the newsletter flag
BatchPriority_root_first(doc) ==
    IF doc.root_domain THEN 2
    ELSE IF doc.is_newsletter THEN 0
    ELSE 1

BatchPriority(doc) ==
    IF doc.is_newsletter THEN 0
    ELSE IF doc.root_domain THEN 2
    ELSE 1

TransferMailsMessage(m) ==
    [outgoing_mail |-> m, recipients |-> DOMAIN mails[m].recipients,
     priority |-> publish(BatchPriority(mails[m])),
     x_max_priority |-> declare_queue(3), by |-> "transfer_mails"]

\* batches: the batches the run has selected so far
TMIdle ==
    [pc |-> "idle", batch |-> <<>>, idx |-> 0, total_failures |-> 0,
     batches |-> <<>>]

\* the scheduler starts a run
TM_Start ==
    /\ tm.pc = "idle"
    /\ tm' = [TMIdle EXCEPT !.pc = "select"]
    /\ UNCHANGED <<mails, tn, outq, agentHas, statusq, goms, hooksLeft, retried>>
    /\ UNCHANGED <<submitVars, inboundVars, serviceVars>>

\* the run ends: total_failures reached max_failures, or nothing is Pending
TM_Return ==
    /\ tm.pc = "select"
    /\ \/ tm.total_failures >= max_failures
       \/ get_mails_to_transfer(max_batch_size) = <<>>
    /\ tm' = TMIdle
    /\ UNCHANGED <<mails, tn, outq, agentHas, statusq, goms, hooksLeft, retried>>
    /\ UNCHANGED <<submitVars, inboundVars, serviceVars>>

\* a slip: the loop head does not test total_failures
TM_Select_unguarded ==
    /\ tm.pc = "select"
    /\ get_mails_to_transfer(max_batch_size) # <<>>
    /\ tm' = [tm EXCEPT !.pc = "flip",
                        !.batch = get_mails_to_transfer(max_batch_size),
                        !.batches = Append(@, get_mails_to_transfer(max_batch_size))]
    /\ UNCHANGED <<mails, tn, outq, agentHas, statusq, goms, hooksLeft, retried>>
    /\ UNCHANGED <<submitVars, inboundVars, serviceVars>>

\* loop head with a non-empty selection
TM_Select ==
    /\ tm.pc = "select"
    /\ tm.total_failures < max_failures
    /\ get_mails_to_transfer(max_batch_size) # <<>>
    /\ tm' = [tm EXCEPT !.pc = "flip",
                        !.batch = get_mails_to_transfer(max_batch_size),
                        !.batches = Append(@, get_mails_to_transfer(max_batch_size))]
    /\ UNCHANGED <<mails, tn, outq, agentHas, statusq, goms, hooksLeft, retried>>
    /\ UNCHANGED <<submitVars, inboundVars, serviceVars>>

TM_Flip ==
    /\ tm.pc = "flip"
    /\ mails' = tm_transferring(mails, tm.batch)
    /\ tm' = [tm EXCEPT !.pc = "publish", !.idx = 1]
    /\ UNCHANGED <<tn, outq, agentHas, statusq, goms, hooksLeft, retried>>
    /\ UNCHANGED <<submitVars, inboundVars, serviceVars>>

\* one publish of the for-loop succeeds
TM_PublishOk ==
    /\ tm.pc = "publish"
    /\ tm.idx <= Len(tm.batch)
    /\ outq' = Append(outq, TransferMailsMessage(tm.batch[tm.idx]))
    /\ tm' = [tm EXCEPT !.idx = tm.idx + 1]
    /\ UNCHANGED <<mails, tn, agentHas, statusq, goms, hooksLeft, retried>>
    /\ UNCHANGED <<submitVars, inboundVars, serviceVars>>

\* the broker raises (connect, declare_queue or a publish)
TM_PublishFail ==
    /\ tm.pc = "publish"
    /\ tm.idx <= Len(tm.batch)
    /\ mails' = tm_failed(mails, tm.batch)
    /\ tm' = [tm EXCEPT !.pc = "select", !.batch = <<>>, !.idx = 0,
                        !.total_failures = tm.total_failures + 1]
    /\ UNCHANGED <<tn, outq, agentHas, statusq, goms, hooksLeft, retried>>
    /\ UNCHANGED <<submitVars, inboundVars, serviceVars>>

\* every mail of the batch is published
TM_Finish ==
    /\ tm.pc = "publish"
    /\ tm.idx > Len(tm.batch)
    /\ \E now \in Times : mails' = tm_transferred(mails, tm.batch, now)
    /\ tm' = [tm EXCEPT !.pc = "select", !.batch = <<>>, !.idx = 0]
    /\ UNCHANGED <<tn, outq, agentHas, statusq, goms, hooksLeft, retried>>
    /\ UNCHANGED <<submitVars, inboundVars, serviceVars>>

\* transfer_mails, step by step
transfer_mails_steps ==
    \/ TM_Start
    \/ TM_Return
    \/ TM_Select
    \/ TM_Flip
    \/ TM_PublishOk
    \/ TM_PublishFail
    \/ TM_Finish

\* the messages of the first k mails of a batch
BatchMessages(batch, k) == [i \in 1..k |-> TransferMailsMessage(batch[i])]

\* one iteration of the while-loop as one step: the batch is selected and
\* flipped; either all of it is published, or the broker raises after the
\* first k mails were published
TM_Batch ==
    /\ tm.pc = "select"
    /\ tm.total_failures < max_failures
    /\ LET batch == get_mails_to_transfer(max_batch_size)
       IN  /\ batch # <<>>
           /\ \/ /\ \E now \in Times :
                       mails' = tm_transferred(tm_transferring(mails, batch),
                                               batch, now)
                 /\ outq' = outq \o BatchMessages(batch, Len(batch))
                 /\ tm' = [tm EXCEPT !.batches = Append(@, batch)]
              \/ /\ mails' = tm_failed(tm_transferring(mails, batch), batch)
                 /\ \E k \in 0..(Len(batch) - 1) :
                       outq' = outq \o BatchMessages(batch, k)
                 /\ tm' = [tm EXCEPT !.total_failures = tm.total_failures + 1,
                                     !.batches = Append(@, batch)]
    /\ UNCHANGED <<tn, agentHas, statusq, goms, hooksLeft, retried>>
    /\ UNCHANGED <<submitVars, inboundVars, serviceVars>>

\* transfer_mails, one loop iteration per step
transfer_mails ==
    \/ TM_Start
    \/ TM_Return
    \/ TM_Batch

----------------------------------------------------------------------------
(* The sending agent (external): takes mails from OUTGOING_MAIL_QUEUE and  *)
(* reports on them through OUTGOING_MAIL_STATUS_QUEUE                      *)

\* the payload carries no "outgoing_mail"
Absent == ""
\* the name of an Outgoing Mail that has been deleted since
Gone == "gone"

RecipientHooks == {"deferred", "bounce", "delivered"}

\* a per-recipient hook about mail m; by_id: the payload carries the mail's
\* name, otherwise only the agent's queue id
RecipientHook(kind, m, by_id, rcpts, t, bad) ==
    [hook |-> kind, outgoing_mail |-> IF by_id THEN m ELSE Absent,
     queue_id |-> QueueIdOf(m), rcpts |-> rcpts, retries |-> t,
     action_at |-> t, info |-> kind, bad |-> bad]

QueueOkHook(name, qid) ==
    [hook |-> "queue_ok", outgoing_mail |-> name, queue_id |-> qid,
     rcpts |-> {}, retries |-> 0, action_at |-> NULL, info |-> "queue_ok",
     bad |-> FALSE]

\* what the agent may report about a mail it has taken: queue_ok with or
\* without the mail's name; every per-recipient hook by name for every
\* non-empty set of the mail's recipients; one by queue id only; one with a
\* malformed payload
HooksAbout(m) ==
    LET all == DOMAIN mails[m].recipients
    IN  {QueueOkHook(m, QueueIdOf(m)), QueueOkHook(Absent, QueueIdOf(m))}
        \cup {RecipientHook(kind, m, TRUE, rcpts, t, FALSE) :
                kind \in RecipientHooks, rcpts \in (SUBSET all) \ {{}},
                t \in Times}
        \cup {RecipientHook(kind, m, FALSE, all, 1, FALSE) :
                kind \in {"deferred", "delivered"}}
        \cup {RecipientHook(kind, m, TRUE, all, 1, TRUE) :
                kind \in {"deferred", "delivered"}}

\* hooks that name a mail deleted since
HooksAboutGone ==
    {QueueOkHook(Gone, "Q0")}
    \cup {[RecipientHook(kind, Gone, TRUE, {}, 1, FALSE) EXCEPT !.queue_id = "Q0"] :
            kind \in {"deferred", "delivered"}}

\* what the agent may put on the status queue
AgentHooks == UNION {HooksAbout(m) : m \in agentHas} \cup HooksAboutGone

\* the message the broker hands out next: highest priority, oldest first
NextDelivery(q) ==
    CHOOSE i \in 1..Len(q) :
        \A j \in 1..Len(q) :
            \/ q[j].priority < q[i].priority
            \/ (q[j].priority = q[i].priority /\ i <= j)

RemoveAt(q, i) == SubSeq(q, 1, i - 1) \o SubSeq(q, i + 1, Len(q))

AgentConsume ==
    /\ outq # <<>>
    /\ LET i == NextDelivery(outq)
       IN  /\ agentHas' = agentHas \cup {outq[i].outgoing_mail}
           /\ outq' = RemoveAt(outq, i)
    /\ UNCHANGED <<mails, tn, tm, statusq, goms, hooksLeft, retried>>
    /\ UNCHANGED <<submitVars, inboundVars, serviceVars>>

AgentEmit ==
    /\ hooksLeft > 0
    /\ \E h \in AgentHooks : statusq' = Append(statusq, h)
    /\ hooksLeft' = hooksLeft - 1
    /\ UNCHANGED <<mails, tn, tm, outq, agentHas, goms, retried>>
    /\ UNCHANGED <<submitVars, inboundVars, serviceVars>>

----------------------------------------------------------------------------
(* get_outgoing_mails_status: the status reconciler                        *)

has_unsynced_outgoing_mails ==
    \E m \in DOMAIN mails :
        mails[m].status \in {"Transferred", "Queued", "Deferred"}

\* frappe.get_doc("Outgoing Mail", outgoing_mail or {"queue_id": queue_id}):
\* the documents the lookup can return; none raises DoesNotExistError
Lookup(data) ==
    IF data.outgoing_mail # Absent
    THEN {m \in DOMAIN mails : m = data.outgoing_mail}
    ELSE {m \in DOMAIN mails : mails[m].queue_id = data.queue_id}

time_diff_in_seconds(end, start) == end - start

\* queue_ok: frappe.db.set_value on the named mail (no row: nothing changes)
queue_ok(agent, data) ==
    [m \in DOMAIN mails |->
        IF m = data.outgoing_mail
        THEN [mails[m] EXCEPT !.status = "Queued", !.agent = agent,
                              !.queue_id = data.queue_id]
        ELSE mails[m]]

\* queue_ok reads data["outgoing_mail"] and data["queue_id"]: KeyError
QueueOkRaises(data) == data.outgoing_mail = Absent \/ data.bad

\* a slip: every recipient of the mail is updated, named in the hook or not
undelivered_every_recipient(doc, data) ==
    LET status == IF data.hook = "deferred" THEN "Deferred" ELSE "Bounced"
        updated ==
            [e \in DOMAIN doc.recipients |->
                [status |-> status, retries |-> data.retries,
                 action_at |-> data.action_at,
                 action_after |->
                     time_diff_in_seconds(data.action_at, doc.transferred_at),
                 details |-> data.info]]
    IN  update_status([doc EXCEPT !.recipients = updated])

\* undelivered on the loaded document: the named recipients, then the status
undelivered(doc, data) ==
    LET status == IF data.hook = "deferred" THEN "Deferred" ELSE "Bounced"
        updated ==
            [e \in DOMAIN doc.recipients |->
                IF e \in data.rcpts
                THEN [status |-> status, retries |-> data.retries,
                      action_at |-> data.action_at,
                      action_after |->
                          time_diff_in_seconds(data.action_at, doc.transferred_at),
                      details |-> data.info]
                ELSE doc.recipients[e]]
    IN  update_status([doc EXCEPT !.recipients = updated])

\* a slip: the mail is marked Sent instead of deriving its status
delivered_marks_sent(doc, data) ==
    LET updated ==
            [e \in DOMAIN doc.recipients |->
                IF e \in data.rcpts
                THEN [status |-> "Sent", retries |-> data.retries,
                      action_at |-> data.action_at,
                      action_after |->
                          time_diff_in_seconds(data.action_at, doc.transferred_at),
                      details |-> data.info]
                ELSE doc.recipients[e]]
    IN  IF DOMAIN doc.recipients = {} THEN doc
        ELSE [doc EXCEPT !.recipients = updated, !.status = "Sent"]

\* a slip: the hook's retries are added to the row's instead of replacing them
delivered_adding_retries(doc, data) ==
    LET updated ==
            [e \in DOMAIN doc.recipients |->
                IF e \in data.rcpts
                THEN [status |-> "Sent",
                      retries |-> doc.recipients[e].retries + data.retries,
                      action_at |-> data.action_at,
                      action_after |->
                          time_diff_in_seconds(data.action_at, doc.transferred_at),
                      details |-> data.info]
                ELSE doc.recipients[e]]
    IN  IF DOMAIN doc.recipients = {} THEN doc
        ELSE update_status([doc EXCEPT !.recipients = updated])

\* delivered on the loaded document: update_status runs inside the loop over
\* the recipients, once per recipient row
delivered(doc, data) ==
    LET updated ==
            [e \in DOMAIN doc.recipients |->
                IF e \in data.rcpts
                THEN [status |-> "Sent", retries |-> data.retries,
                      action_at |-> data.action_at,
                      action_after |->
                          time_diff_in_seconds(data.action_at, doc.transferred_at),
                      details |-> data.info]
                ELSE doc.recipients[e]]
    IN  IF DOMAIN doc.recipients = {} THEN doc
        ELSE update_status([doc EXCEPT !.recipients = updated])

\* the handler's try-block raises: a malformed payload or no such mail
RecipientHookRaises(data) == data.bad \/ Lookup(data) = {}

GOMSIdle == [pc |-> "idle", logged |-> ""]

\* the job starts and finds unsynced mails (otherwise it returns at once)
GOMS_Start ==
    /\ goms.pc = "idle"
    /\ has_unsynced_outgoing_mails
    /\ goms' = [pc |-> "run", logged |-> ""]
    /\ UNCHANGED <<mails, tn, tm, outq, agentHas, statusq, hooksLeft, retried>>
    /\ UNCHANGED <<submitVars, inboundVars, serviceVars>>

\* basic_get returns a queue_ok message
GOMS_QueueOk ==
    /\ goms.pc = "run"
    /\ statusq # <<>>
    /\ LET data == Head(statusq)
       IN  /\ data.hook = "queue_ok"
           /\ IF QueueOkRaises(data)
              THEN \* outer except: logged, the loop is left, no ack
                   /\ goms' = [pc |-> "idle", logged |-> "Get Outgoing Mails Status"]
                   /\ UNCHANGED <<mails, statusq>>
              ELSE /\ mails' = queue_ok("agent1", data)
                   /\ statusq' = Tail(statusq)
                   /\ goms' = [goms EXCEPT !.logged = ""]
    /\ UNCHANGED <<tn, tm, outq, agentHas, hooksLeft, retried>>
    /\ UNCHANGED <<submitVars, inboundVars, serviceVars>>

\* basic_get returns a deferred or bounce message
GOMS_Undelivered ==
    /\ goms.pc = "run"
    /\ statusq # <<>>
    /\ LET data == Head(statusq)
       IN  /\ data.hook \in {"bounce", "deferred"}
           /\ IF RecipientHookRaises(data)
              THEN \* inner except: logged
                   /\ goms' = [goms EXCEPT
                                 !.logged = "Error Updating Outgoing Mail Status"]
                   /\ UNCHANGED mails
              ELSE /\ \E m \in Lookup(data) :
                         mails' = [mails EXCEPT ![m] = undelivered(mails[m], data)]
                   /\ goms' = [goms EXCEPT !.logged = ""]
    /\ statusq' = Tail(statusq)
    /\ UNCHANGED <<tn, tm, outq, agentHas, hooksLeft, retried>>
    /\ UNCHANGED <<submitVars, inboundVars, serviceVars>>

\* basic_get returns a delivered message
GOMS_Delivered ==
    /\ goms.pc = "run"
    /\ statusq # <<>>
    /\ LET data == Head(statusq)
       IN  /\ data.hook = "delivered"
           /\ IF RecipientHookRaises(data)
              THEN \* inner except: logged
                   /\ goms' = [goms EXCEPT
                                 !.logged = "Error Updating Outgoing Mail Status"]
                   /\ UNCHANGED mails
              ELSE /\ \E m \in Lookup(data) :
                         mails' = [mails EXCEPT ![m] = delivered(mails[m], data)]
                   /\ goms' = [goms EXCEPT !.logged = ""]
    /\ statusq' = Tail(statusq)
    /\ UNCHANGED <<tn, tm, outq, agentHas, hooksLeft, retried>>
    /\ UNCHANGED <<submitVars, inboundVars, serviceVars>>

\* basic_get returns nothing: the loop breaks
GOMS_Done ==
    /\ goms.pc = "run"
    /\ statusq = <<>>
    /\ goms' = [goms EXCEPT !.pc = "idle"]
    /\ UNCHANGED <<mails, tn, tm, outq, agentHas, statusq, hooksLeft, retried>>
    /\ UNCHANGED <<submitVars, inboundVars, serviceVars>>

get_outgoing_mails_status ==
    \/ GOMS_Start
    \/ GOMS_QueueOk
    \/ GOMS_Undelivered
    \/ GOMS_Delivered
    \/ GOMS_Done

----------------------------------------------------------------------------
(* The submission APIs (api/outbound.py) and the newsletter queue          *)

\* create_outgoing_mail with save and submit: the new submitted document
create_outgoing_mail(table, name, is_newsletter) ==
    [m \in DOMAIN table \cup {name} |->
        IF m \in DOMAIN table THEN table[m]
        ELSE NewDoc({"a"}, is_newsletter, FALSE, Cardinality(DOMAIN table) + 1)]

\* send: valid says whether the document passes validate (otherwise
\* frappe.throw reaches the caller); on_submit enqueues transfer_now
send(name) ==
    /\ api[name] = "none"
    /\ \E valid \in BOOLEAN :
          IF valid
          THEN /\ mails' = create_outgoing_mail(mails, name, FALSE)
               /\ tn' = [tn EXCEPT ![name] = "queued"]
               /\ api' = [api EXCEPT ![name] = "ok"]
          ELSE /\ api' = [api EXCEPT ![name] = "error"]
               /\ UNCHANGED <<mails, tn>>
    /\ UNCHANGED <<tm, outq, agentHas, statusq, goms, hooksLeft, retried, nlq, pnq>>
    /\ UNCHANGED <<inboundVars, serviceVars>>

\* send_raw: the same document built from raw_message
send_raw(name) ==
    /\ api[name] = "none"
    /\ \E valid \in BOOLEAN :
          IF valid
          THEN /\ mails' = create_outgoing_mail(mails, name, FALSE)
               /\ tn' = [tn EXCEPT ![name] = "queued"]
               /\ api' = [api EXCEPT ![name] = "ok"]
          ELSE /\ api' = [api EXCEPT ![name] = "error"]
               /\ UNCHANGED <<mails, tn>>
    /\ UNCHANGED <<tm, outq, agentHas, statusq, goms, hooksLeft, retried, nlq, pnq>>
    /\ UNCHANGED <<inboundVars, serviceVars>>

\* the documents of a batch, created one after the other
RECURSIVE CreateAll(_, _)
CreateAll(table, names) ==
    IF names = <<>> THEN table
    ELSE CreateAll(create_outgoing_mail(table, Head(names), FALSE), Tail(names))

\* send_batch: validate_batch, then create_outgoing_mail for each mail; an
\* exception from either ends the request with an error
send_batch(names) ==
    /\ names # {}
    /\ \A n \in names : api[n] = "none"
    /\ \E valid \in BOOLEAN :
          IF valid
          THEN /\ mails' = CreateAll(mails, SetToSeq(names))
               /\ tn' = [m \in DOMAIN tn |-> IF m \in names THEN "queued" ELSE tn[m]]
               /\ api' = [c \in DOMAIN api |-> IF c \in names THEN "ok" ELSE api[c]]
          ELSE /\ api' = [c \in DOMAIN api |-> IF c \in names THEN "error" ELSE api[c]]
               /\ UNCHANGED <<mails, tn>>
    /\ UNCHANGED <<tm, outq, agentHas, statusq, goms, hooksLeft, retried, nlq, pnq>>
    /\ UNCHANGED <<inboundVars, serviceVars>>

\* send_raw_batch: as send_batch, with raw messages
send_raw_batch(names) ==
    /\ names # {}
    /\ \A n \in names : api[n] = "none"
    /\ \E valid \in BOOLEAN :
          IF valid
          THEN /\ mails' = CreateAll(mails, SetToSeq(names))
               /\ tn' = [m \in DOMAIN tn |-> IF m \in names THEN "queued" ELSE tn[m]]
               /\ api' = [c \in DOMAIN api |-> IF c \in names THEN "ok" ELSE api[c]]
          ELSE /\ api' = [c \in DOMAIN api |-> IF c \in names THEN "error" ELSE api[c]]
               /\ UNCHANGED <<mails, tn>>
    /\ UNCHANGED <<tm, outq, agentHas, statusq, goms, hooksLeft, retried, nlq, pnq>>
    /\ UNCHANGED <<inboundVars, serviceVars>>

\* a newsletter message on NEWSLETTER_QUEUE; valid: the document built from
\* it will pass OutgoingMail.validate
NewsletterMessage(name, valid) == [name |-> name, valid |-> valid]

\* send_newsletter: validate_batch checks only that from_ and to are given
\* (mandatory); each mail is then published to NEWSLETTER_QUEUE and the call
\* returns without an error
send_newsletter(names) ==
    /\ names # {}
    /\ \A n \in names : api[n] = "none"
    /\ \E mandatory \in BOOLEAN :
          IF mandatory
          THEN /\ \E valid \in [names -> BOOLEAN] :
                     nlq' = nlq \o [i \in 1..Cardinality(names) |->
                                      NewsletterMessage(SetToSeq(names)[i],
                                                        valid[SetToSeq(names)[i]])]
               /\ api' = [c \in DOMAIN api |-> IF c \in names THEN "ok" ELSE api[c]]
          ELSE /\ api' = [c \in DOMAIN api |-> IF c \in names THEN "error" ELSE api[c]]
               /\ UNCHANGED nlq
    /\ UNCHANGED <<mails, tn, tm, outq, agentHas, statusq, goms, hooksLeft, retried, pnq>>
    /\ UNCHANGED <<inboundVars, serviceVars>>

\* process_newsletter_queue: documents and delivery_tags of the round
PNQIdle == [pc |-> "idle", documents |-> <<>>, delivery_tags |-> <<>>]

\* the scheduler starts the job
PNQ_Start ==
    /\ pnq.pc = "idle"
    /\ pnq' = [PNQIdle EXCEPT !.pc = "fetch"]
    /\ UNCHANGED <<mails, nlq, api>>
    /\ UNCHANGED <<pipelineVars, inboundVars, serviceVars>>

\* basic_get returns a message and get_outgoing_mail_for_bulk_insert
\* builds its document
PNQ_Fetch ==
    /\ pnq.pc = "fetch"
    /\ Len(pnq.documents) < batch_size
    /\ nlq # <<>>
    /\ Head(nlq).valid
    /\ pnq' = [pnq EXCEPT !.documents = Append(pnq.documents, Head(nlq).name),
                          !.delivery_tags = Append(pnq.delivery_tags, Head(nlq))]
    /\ nlq' = Tail(nlq)
    /\ UNCHANGED <<mails, api>>
    /\ UNCHANGED <<pipelineVars, inboundVars, serviceVars>>

\* basic_get returns a message whose document fails validate:
\* get_outgoing_mail_for_bulk_insert raises outside any try, the job ends;
\* the messages it holds unacked go back to the queue when its channel closes
PNQ_FetchRaises ==
    /\ pnq.pc = "fetch"
    /\ Len(pnq.documents) < batch_size
    /\ nlq # <<>>
    /\ ~Head(nlq).valid
    /\ nlq' = pnq.delivery_tags \o nlq
    /\ pnq' = PNQIdle
    /\ UNCHANGED <<mails, api>>
    /\ UNCHANGED <<pipelineVars, inboundVars, serviceVars>>

\* the for-loop ends (batch_size reached or the queue is empty) with no
\* document: the job returns
PNQ_Return ==
    /\ pnq.pc = "fetch"
    /\ Len(pnq.documents) = batch_size \/ nlq = <<>>
    /\ pnq.documents = <<>>
    /\ pnq' = PNQIdle
    /\ UNCHANGED <<mails, nlq, api>>
    /\ UNCHANGED <<pipelineVars, inboundVars, serviceVars>>

\* the documents of a round, inserted as submitted Pending newsletters
RECURSIVE bulk_insert(_, _)
bulk_insert(table, documents) ==
    IF documents = <<>> THEN table
    ELSE bulk_insert(create_outgoing_mail(table, Head(documents), TRUE),
                     Tail(documents))

\* bulk_insert and commit succeed: basic_ack(multiple=True), next round
PNQ_InsertOk ==
    /\ pnq.pc = "fetch"
    /\ Len(pnq.documents) = batch_size \/ nlq = <<>>
    /\ pnq.documents # <<>>
    /\ mails' = bulk_insert(mails, pnq.documents)
    /\ pnq' = [PNQIdle EXCEPT !.pc = "fetch"]
    /\ UNCHANGED <<nlq, api>>
    /\ UNCHANGED <<pipelineVars, inboundVars, serviceVars>>

\* bulk_insert raises: basic_nack(multiple=True, requeue=True), logged,
\* next round
PNQ_InsertFails ==
    /\ pnq.pc = "fetch"
    /\ Len(pnq.documents) = batch_size \/ nlq = <<>>
    /\ pnq.documents # <<>>
    /\ nlq' = pnq.delivery_tags \o nlq
    /\ pnq' = [PNQIdle EXCEPT !.pc = "fetch"]
    /\ UNCHANGED <<mails, api>>
    /\ UNCHANGED <<pipelineVars, inboundVars, serviceVars>>

process_newsletter_queue ==
    \/ PNQ_Start
    \/ PNQ_Fetch
    \/ PNQ_FetchRaises
    \/ PNQ_Return
    \/ PNQ_InsertOk
    \/ PNQ_InsertFails

----------------------------------------------------------------------------
(* Inbound intake: get_incoming_mails                                      *)

\* messages the receiving agent delivers in a run
MaxInbound == 2

Mailboxes == {"a", "b"}
\* the Mail Alias "team" and its destination mailboxes, in row order
MailAlias == "team"
AliasMailboxes == <<"a", "b">>
\* addresses a message can be delivered to; "ghost" is no alias and no mailbox
Receivers == {MailAlias, "a", "b", "ghost"}

RejectionMessage == "550 5.4.1 Recipient address rejected: Access denied."
Postmaster == "postmaster"

\* the records the intake reads: one Mail Domain (all receivers are in it),
\* the alias, the two mailboxes and Mail Settings.send_notification_on_reject
SiteConfigs ==
    {c \in [domain_enabled : BOOLEAN, alias_enabled : BOOLEAN,
            mailbox : [Mailboxes -> [enabled : BOOLEAN, incoming : BOOLEAN]],
            send_notification_on_reject : BOOLEAN] :
        c.mailbox["b"].incoming}

\* a message on INCOMING_MAIL_QUEUE: n numbers the deliveries; valid says
\* whether From and Delivered-To pass validate_email_address
InboundMessage(n, receiver, valid, reply_to) ==
    [n |-> n, receiver |-> receiver, valid |-> valid,
     sender |-> "from", reply_to |-> reply_to, subject |-> "subject"]

InboundMessages(n) ==
    {InboundMessage(n, r, TRUE, rt) : r \in Receivers, rt \in {"", "reply"}}
    \cup {InboundMessage(n, "a", FALSE, "")}

is_active_domain(cfg) == cfg.domain_enabled

is_mail_alias(alias) == alias = MailAlias

is_active_mailbox(cfg, mailbox) ==
    mailbox \in DOMAIN cfg.mailbox /\ cfg.mailbox[mailbox].enabled

\* IncomingMail.process, run by validate when the document is submitted
process(doc, msg, now) ==
    [doc EXCEPT !.sender = msg.sender, !.reply_to = msg.reply_to,
                !.subject = msg.subject,
                !.status = IF doc.is_rejected = 1 THEN "Rejected" ELSE "Accepted",
                !.processed_at = now]

\* create_incoming_mail: the row is saved as a draft, then submitted inside
\* a try; submitted says whether doc.submit() went through
create_incoming_mail(table, msg, receiver, is_rejected, rejection_message, submitted, now) ==
    LET doc == [id |-> Len(table) + 1, msg |-> msg.n, receiver |-> receiver,
                is_rejected |-> is_rejected,
                rejection_message |-> rejection_message,
                docstatus |-> 0, status |-> "", processed_at |-> NULL,
                sender |-> "", reply_to |-> "", subject |-> ""]
    IN  Append(table,
               IF submitted THEN [process(doc, msg, now) EXCEPT !.docstatus = 1]
               ELSE doc)

\* the bounce that log_rejected_mail creates with create_outgoing_mail
Bounce(msg) ==
    [sender |-> Postmaster,
     to |-> IF msg.reply_to # "" THEN msg.reply_to ELSE msg.sender,
     subject |-> <<"Undeliverable: ", msg.subject>>, about |-> msg.n]

\* log_rejected_mail on db = [incoming, bounces, logged], logged being the
\* title of the last frappe.log_error. ch.reject: doc.submit() went through;
\* ch.docstatus: the docstatus the returned document carries after a submit
\* that raised (assigned inside frappe's Document.submit, the row itself
\* stays a draft); ch.bounce: create_outgoing_mail went through
log_rejected_mail(cfg, db, msg, ch, now) ==
    LET docstatus == IF ch.reject THEN 1 ELSE ch.docstatus
        notify == docstatus = 1 /\ cfg.send_notification_on_reject
    IN  [incoming |-> create_incoming_mail(db.incoming, msg, msg.receiver, 1,
                                           RejectionMessage, ch.reject, now),
         bounces |-> IF notify /\ ch.bounce
                     THEN Append(db.bounces, Bounce(msg))
                     ELSE db.bounces,
         logged |-> IF notify /\ ~ch.bounce THEN "Send Rejection Notification"
                    ELSE IF ~ch.reject THEN "Submit Incoming Mail"
                    ELSE db.logged]

\* the loop over mail_alias.mailboxes
RECURSIVE FanOut(_, _, _, _, _, _)
FanOut(cfg, db, msg, boxes, ch, now) ==
    IF boxes = <<>> THEN db
    ELSE FanOut(cfg,
                IF is_active_mailbox(cfg, Head(boxes))
                THEN [db EXCEPT
                         !.incoming =
                             create_incoming_mail(db.incoming, msg, Head(boxes),
                                                  0, "", ch.submit[Head(boxes)],
                                                  now),
                         !.logged =
                             IF ch.submit[Head(boxes)] THEN db.logged
                             ELSE "Submit Incoming Mail"]
                ELSE db,
                msg, Tail(boxes), ch, now)

\* process_incoming_mail on db = [incoming, bounces, logged]
process_incoming_mail(cfg, db, msg, ch, now) ==
    IF ~msg.valid THEN [db EXCEPT !.logged = "Invalid Email Address"]
    ELSE IF ~is_active_domain(cfg) THEN log_rejected_mail(cfg, db, msg, ch, now)
    ELSE IF is_mail_alias(msg.receiver)
    THEN log_rejected_mail(
             cfg,
             IF cfg.alias_enabled
             THEN FanOut(cfg, db, msg, AliasMailboxes, ch, now)
             ELSE db,
             msg, ch, now)
    ELSE IF is_active_mailbox(cfg, msg.receiver)
    THEN [db EXCEPT
             !.incoming =
                 create_incoming_mail(db.incoming, msg, msg.receiver, 0, "",
                                      ch.submit[msg.receiver], now),
             !.logged = IF ch.submit[msg.receiver] THEN db.logged
                        ELSE "Submit Incoming Mail"]
    ELSE log_rejected_mail(cfg, db, msg, ch, now)

\* what the environment decides while one message is processed
IntakeChoices ==
    [submit : [Mailboxes -> BOOLEAN], reject : BOOLEAN, docstatus : {0, 1},
     bounce : BOOLEAN]

GIMIdle == [pc |-> "idle", logged |-> ""]

\* the receiving agent puts a message on INCOMING_MAIL_QUEUE
AgentDeliver ==
    /\ delivered_in < MaxInbound
    /\ \E msg \in InboundMessages(delivered_in + 1) : inq' = Append(inq, msg)
    /\ delivered_in' = delivered_in + 1
    /\ UNCHANGED <<site, gim, incoming, bounces, clock, pullVars>>
    /\ UNCHANGED <<mails, pipelineVars, submitVars, serviceVars>>

GIM_Start ==
    /\ gim.pc = "idle"
    /\ gim' = [pc |-> "run", logged |-> ""]
    /\ UNCHANGED <<site, inq, delivered_in, incoming, bounces, clock, pullVars>>
    /\ UNCHANGED <<mails, pipelineVars, submitVars, serviceVars>>

\* one iteration of the loop: basic_get, process_incoming_mail, basic_ack
GIM_Process ==
    /\ gim.pc = "run"
    /\ inq # <<>>
    /\ \E ch \in IntakeChoices :
          LET db == process_incoming_mail(
                        site,
                        [incoming |-> incoming, bounces |-> bounces,
                         logged |-> gim.logged],
                        Head(inq), ch, clock)
          IN  /\ incoming' = db.incoming
              /\ bounces' = db.bounces
              /\ gim' = [gim EXCEPT !.logged = db.logged]
    /\ inq' = Tail(inq)
    /\ UNCHANGED <<site, delivered_in, clock, pullVars>>
    /\ UNCHANGED <<mails, pipelineVars, submitVars, serviceVars>>

\* an exception that leaves process_incoming_mail (the first doc.save()
\* raises): the outer except logs it, the job ends, the message is not acked
GIM_Raises ==
    /\ gim.pc = "run"
    /\ inq # <<>>
    /\ Head(inq).valid
    /\ gim' = [pc |-> "idle", logged |-> "Get Incoming Mails"]
    /\ UNCHANGED <<site, inq, delivered_in, incoming, bounces, clock, pullVars>>
    /\ UNCHANGED <<mails, pipelineVars, submitVars, serviceVars>>

\* basic_get returns nothing: break
GIM_Done ==
    /\ gim.pc = "run"
    /\ inq = <<>>
    /\ gim' = [gim EXCEPT !.pc = "idle"]
    /\ UNCHANGED <<site, inq, delivered_in, incoming, bounces, clock, pullVars>>
    /\ UNCHANGED <<mails, pipelineVars, submitVars, serviceVars>>

get_incoming_mails ==
    \/ GIM_Start
    \/ GIM_Process
    \/ GIM_Raises
    \/ GIM_Done

----------------------------------------------------------------------------
(* Sync cursor service: pull, pull_raw and Mail Sync History               *)

\* latest value of now()
MaxClock == 3
\* Incoming Mails that arrive in a run
MaxArrivals == 2
\* pull requests in a run
MaxPulls == 2
\* Mail Settings.max_sync_via_api
max_sync_via_api == 2

\* hours by which UTC is ahead of the system timezone
UtcAhead == 1

Clients == {"c1", "c2"}
Sources == {"s1", "s2"}
\* the user who owns mailbox "a", the mailbox the clients pull
MailboxUser == "user"
PulledMailbox == "a"

convert_utc_to_system_timezone(dt_utc) == dt_utc - UtcAhead

\* a slip: the UTC datetime is taken as system time
convert_to_system_timezone_unconverted(last_synced_at) == last_synced_at

\* convert_to_system_timezone: None stays None
convert_to_system_timezone(last_synced_at) ==
    IF last_synced_at # NULL THEN convert_utc_to_system_timezone(last_synced_at)
    ELSE NULL

\* convert_to_utc of a naive datetime in the system timezone
convert_to_utc(date_time) == date_time + UtcAhead

\* validate_mailbox_for_incoming passes
validate_mailbox_for_incoming(cfg, mailbox) ==
    cfg.mailbox[mailbox].enabled /\ cfg.mailbox[mailbox].incoming

\* validate_max_sync_limit passes
validate_max_sync_limit(limit) == ~(limit > max_sync_via_api)

\* frappe.db.exists("Mail Sync History", {source, user, mailbox})
ExistingHistory(table, source, user, mailbox) ==
    {h \in DOMAIN table :
        /\ table[h].source = source
        /\ table[h].user = user
        /\ table[h].mailbox = mailbox}

\* the unique index unique_mailbox_source lets the row in
unique_mailbox_source(table, source, mailbox) ==
    \A h \in DOMAIN table :
        ~(table[h].mailbox = mailbox /\ table[h].source = source)

\* the insert without validate_duplicate and without the unique index
create_mail_sync_history_unguarded(table, source, user, mailbox) ==
    Append(table, [source |-> source, user |-> user, mailbox |-> mailbox,
                   last_synced_at |-> NULL, last_synced_mail |-> NULL])

\* create_mail_sync_history: the table after the insert, or the table as it
\* was when validate_duplicate throws or the unique index refuses the row
create_mail_sync_history(table, source, user, mailbox) ==
    IF /\ ExistingHistory(table, source, user, mailbox) = {}
       /\ unique_mailbox_source(table, source, mailbox)
    THEN Append(table, [source |-> source, user |-> user, mailbox |-> mailbox,
                        last_synced_at |-> NULL, last_synced_mail |-> NULL])
    ELSE table

\* a slip: the row at the cursor is selected again (>= for >)
Eligible_from_cursor(table, mailbox, last_synced_at) ==
    {i \in DOMAIN table :
        /\ table[i].docstatus = 1
        /\ table[i].receiver = mailbox
        /\ (last_synced_at # NULL => table[i].processed_at >= last_synced_at)}

\* WHERE docstatus = 1 AND receiver = mailbox [AND processed_at > last_synced_at]
Eligible(table, mailbox, last_synced_at) ==
    {i \in DOMAIN table :
        /\ table[i].docstatus = 1
        /\ table[i].receiver = mailbox
        /\ (last_synced_at # NULL => table[i].processed_at > last_synced_at)}

\* ORDER BY processed_at LIMIT limit: the results the database may give
\* (rows with equal processed_at come in any order)
RECURSIVE order_by_limit(_, _, _)
order_by_limit(table, ids, limit) ==
    IF ids = {} \/ limit = 0 THEN {<<>>}
    ELSE LET first == {i \in ids :
                          \A j \in ids :
                              table[i].processed_at <= table[j].processed_at}
         IN  UNION {{<<i>> \o rest :
                        rest \in order_by_limit(table, ids \ {i}, limit - 1)} :
                    i \in first}

\* get_incoming_mails / get_raw_incoming_mails: the possible results
get_incoming_mails_results(table, mailbox, limit, last_synced_at, now) ==
    {[mails |-> ms,
      last_synced_at |-> IF ms # <<>> THEN table[ms[Len(ms)]].processed_at
                         ELSE now,
      last_synced_mail |-> IF ms # <<>> THEN ms[Len(ms)] ELSE NULL] :
        ms \in order_by_limit(table, Eligible(table, mailbox, last_synced_at),
                              limit)}

\* a slip: only last_synced_mail is written
update_mail_sync_history_mail_only(table, name, last_synced_at, last_synced_mail, now) ==
    [table EXCEPT
        ![name].last_synced_mail =
            IF last_synced_mail # NULL THEN last_synced_mail
            ELSE table[name].last_synced_mail]

\* update_mail_sync_history
update_mail_sync_history(table, name, last_synced_at, last_synced_mail, now) ==
    [table EXCEPT
        ![name].last_synced_at =
            IF last_synced_at # NULL THEN last_synced_at ELSE now,
        ![name].last_synced_mail =
            IF last_synced_mail # NULL THEN last_synced_mail
            ELSE table[name].last_synced_mail]

PullIdle ==
    [pc |-> "idle", raw |-> FALSE, source |-> "", limit |-> 0,
     arg |-> NULL, history |-> 0, cursor |-> NULL, began |-> 0]

\* a response of the API: error names the exception that ended the request
Response(req, client, error, result, seen) ==
    [client |-> client, raw |-> req.raw, source |-> req.source,
     limit |-> req.limit, arg |-> req.arg, began |-> req.began,
     error |-> error, mails |-> result.mails,
     last_synced_at |-> IF error = "" THEN convert_to_utc(result.last_synced_at)
                        ELSE NULL,
     seen |-> seen]

NoResult == [mails |-> <<>>, last_synced_at |-> NULL, last_synced_mail |-> NULL]

\* requests begun so far
PullsBegun == Len(pulls) + Cardinality({c \in Clients : pullc[c].pc # "idle"})

\* pull / pull_raw up to get_mail_sync_history's lookup: the validations,
\* get_source, convert_to_system_timezone, frappe.db.exists and get_doc.
\* Client c1 sends from s1; last_synced_at, when given, is the UTC
\* datetime of the earliest instant of the run
P_Begin(c, raw) ==
    /\ pullc[c].pc = "idle"
    /\ PullsBegun < MaxPulls
    /\ \E source \in (IF c = "c1" THEN {"s1"} ELSE Sources),
          limit \in 1..(max_sync_via_api + 1),
          arg \in {NULL, convert_to_utc(1)} :
          LET req == [PullIdle EXCEPT !.raw = raw, !.source = source,
                                      !.limit = limit, !.arg = arg,
                                      !.began = Len(pulls)]
              found == ExistingHistory(histories, source, MailboxUser,
                                       PulledMailbox)
          IN  IF ~validate_mailbox_for_incoming(site, PulledMailbox)
              THEN /\ pulls' = Append(pulls, Response(req, c, "mailbox", NoResult,
                                                      Len(incoming)))
                   /\ UNCHANGED pullc
              ELSE IF ~validate_max_sync_limit(limit)
              THEN /\ pulls' = Append(pulls, Response(req, c, "limit", NoResult,
                                                      Len(incoming)))
                   /\ UNCHANGED pullc
              ELSE IF found # {}
              THEN /\ \E h \in found :
                         pullc' = [pullc EXCEPT ![c] =
                                      [req EXCEPT !.pc = "serve", !.history = h,
                                                  !.cursor =
                                                     histories[h].last_synced_at]]
                   /\ UNCHANGED pulls
              ELSE /\ pullc' = [pullc EXCEPT ![c] = [req EXCEPT !.pc = "create"]]
                   /\ UNCHANGED pulls
    /\ UNCHANGED <<histories, incoming, clock, intakeVars>>
    /\ UNCHANGED <<mails, pipelineVars, submitVars, serviceVars>>

\* get_mail_sync_history: create_mail_sync_history(..., commit=True); when
\* the insert is refused the exception ends the request
P_Create(c) ==
    /\ pullc[c].pc = "create"
    /\ LET req == pullc[c]
           table == create_mail_sync_history(histories, req.source, MailboxUser,
                                             PulledMailbox)
       IN  IF table # histories
           THEN /\ histories' = table
                /\ pullc' = [pullc EXCEPT ![c] =
                                [req EXCEPT !.pc = "serve",
                                            !.history = Len(table),
                                            !.cursor = NULL]]
                /\ UNCHANGED pulls
           ELSE /\ pulls' = Append(pulls, Response(req, c, "duplicate", NoResult,
                                                   Len(incoming)))
                /\ pullc' = [pullc EXCEPT ![c] = PullIdle]
                /\ UNCHANGED histories
    /\ UNCHANGED <<incoming, clock, intakeVars>>
    /\ UNCHANGED <<mails, pipelineVars, submitVars, serviceVars>>

\* get_incoming_mails with the argument or else the cursor that was loaded,
\* update_mail_sync_history (committed), and the response
P_Serve(c) ==
    /\ pullc[c].pc = "serve"
    /\ LET req == pullc[c]
           arg == convert_to_system_timezone(req.arg)
           last_synced_at == IF arg # NULL THEN arg ELSE req.cursor
       IN  \E result \in get_incoming_mails_results(
                             incoming, PulledMailbox, req.limit, last_synced_at,
                             clock) :
               /\ histories' = update_mail_sync_history(
                                   histories, req.history, result.last_synced_at,
                                   result.last_synced_mail, clock)
               /\ pulls' = Append(pulls, Response(req, c, "", result,
                                                  Len(incoming)))
    /\ pullc' = [pullc EXCEPT ![c] = PullIdle]
    /\ UNCHANGED <<incoming, clock, intakeVars>>
    /\ UNCHANGED <<mails, pipelineVars, submitVars, serviceVars>>

\* client c1 calls pull, client c2 calls pull_raw
pull(c) ==
    \/ P_Begin(c, FALSE)
    \/ (~pullc[c].raw /\ P_Create(c))
    \/ (~pullc[c].raw /\ P_Serve(c))

pull_raw(c) ==
    \/ P_Begin(c, TRUE)
    \/ (pullc[c].raw /\ P_Create(c))
    \/ (pullc[c].raw /\ P_Serve(c))

\* an Incoming Mail is created by the intake (accepted): for the pulled
\* mailbox, its submit going through or not, or for the other mailbox
IncomingArrives ==
    /\ Len(incoming) < MaxArrivals
    /\ \E receiver \in Mailboxes, submitted \in BOOLEAN :
          /\ (receiver # PulledMailbox => submitted)
          /\ incoming' = create_incoming_mail(
                          incoming,
                          InboundMessage(Len(incoming) + 1, receiver, TRUE, ""),
                          receiver, 0, "", submitted, clock)
    /\ UNCHANGED <<clock, intakeVars, pullVars>>
    /\ UNCHANGED <<mails, pipelineVars, submitVars, serviceVars>>

\* time passes
Tick ==
    /\ clock < MaxClock
    /\ clock' = clock + 1
    /\ UNCHANGED <<incoming, intakeVars, pullVars>>
    /\ UNCHANGED <<mails, pipelineVars, submitVars, serviceVars>>

\* The transaction of get_incoming_mails commits: an Incoming Mail of the
\* pulled mailbox becomes visible to the API. Its processed_at is the now()
\* that process assigned while the document was validated, an instant that
\* is not later than the commit.
IncomingCommitted ==
    /\ Len(incoming) < MaxArrivals
    /\ \E processed_at \in 1..clock :
          incoming' = create_incoming_mail(
                          incoming,
                          InboundMessage(Len(incoming) + 1, PulledMailbox, TRUE, ""),
                          PulledMailbox, 0, "", TRUE, processed_at)
    /\ UNCHANGED <<clock, intakeVars, pullVars>>
    /\ UNCHANGED <<mails, pipelineVars, submitVars, serviceVars>>

----------------------------------------------------------------------------
(* The broker connection pool and rabbitmq_context                         *)

\* RabbitMQConnectionPool(pool_size)
pool_size == 2
\* rabbitmq_context blocks entered in a run
MaxBlocks == 4

\* threads that publish or consume at the same time
PoolThreads == 1..(pool_size + 1)

\* a RabbitMQ connection as _create_new_connection hands it out: where it
\* is, how often it was handed out and how often it was given back
NewConnection == [state |-> "borrowed", borrows |-> 1, returns |-> 0]

\* get_connection under the condition's lock, q being _pool: the possible
\* outcomes. An idle connection is taken from the queue; with the queue
\* empty, qsize() < pool_size creates a connection (RabbitMQ() may raise);
\* otherwise the caller waits on the condition and raises after 5 s
get_connection(q, table) ==
    IF q # <<>>
    THEN {[pool |-> Tail(q),
           conns |-> [table EXCEPT ![Head(q)].state = "borrowed",
                                   ![Head(q)].borrows = @ + 1],
           connection |-> Head(q), error |-> ""]}
    ELSE IF Len(q) < pool_size
    THEN {[pool |-> q, conns |-> Append(table, NewConnection),
           connection |-> Len(table) + 1, error |-> ""],
          [pool |-> q, conns |-> table, connection |-> NULL,
           error |-> "AMQPConnectionError"]}
    ELSE {[pool |-> q, conns |-> table, connection |-> NULL,
           error |-> "No connections available in the pool."]}

\* a slip: a connection that finds the pool full is dropped as it is
return_connection_unless_full(q, table, connection) ==
    IF Len(q) >= pool_size
    THEN [pool |-> q, conns |-> table]
    ELSE [pool |-> Append(q, connection),
          conns |-> [table EXCEPT ![connection].state = "pooled",
                                  ![connection].returns = @ + 1]]

\* return_connection under the lock: _disconnect when the pool is full,
\* else put and notify
return_connection(q, table, connection) ==
    IF Len(q) >= pool_size
    THEN [pool |-> q,
          conns |-> [table EXCEPT ![connection].state = "closed",
                                  ![connection].returns = @ + 1]]
    ELSE [pool |-> Append(q, connection),
          conns |-> [table EXCEPT ![connection].state = "pooled",
                                  ![connection].returns = @ + 1]]

ThreadOut == [pc |-> "out", connection |-> NULL, error |-> ""]

\* rabbitmq_context: connection = pool.get_connection(), then yield; when
\* get_connection raises, connection is still None in the finally clause
RC_Enter(t) ==
    /\ threads[t].pc = "out"
    /\ entered < MaxBlocks
    /\ entered' = entered + 1
    /\ \E got \in get_connection(pool, conns) :
          /\ pool' = got.pool
          /\ conns' = got.conns
          /\ threads' = [threads EXCEPT ![t] =
                IF got.connection # NULL
                THEN [pc |-> "in", connection |-> got.connection, error |-> ""]
                ELSE [ThreadOut EXCEPT !.error = got.error]]
    /\ UNCHANGED <<trackVars, jobVars, validationVars, dkimVars>>
    /\ UNCHANGED <<mails, pipelineVars, submitVars, inboundVars>>

\* the body of the with-block ends, normally or by an exception
RC_Body(t) ==
    /\ threads[t].pc = "in"
    /\ \E error \in {"", "Exception"} :
          threads' = [threads EXCEPT ![t].pc = "finally", ![t].error = error]
    /\ UNCHANGED <<pool, conns, entered>>
    /\ UNCHANGED <<trackVars, jobVars, validationVars, dkimVars>>
    /\ UNCHANGED <<mails, pipelineVars, submitVars, inboundVars>>

\* finally: if connection: pool.return_connection(connection)
RC_Exit(t) ==
    /\ threads[t].pc = "finally"
    /\ LET back == IF threads[t].connection # NULL
                   THEN return_connection(pool, conns, threads[t].connection)
                   ELSE [pool |-> pool, conns |-> conns]
       IN  /\ pool' = back.pool
           /\ conns' = back.conns
    /\ threads' = [threads EXCEPT ![t] =
                      [ThreadOut EXCEPT !.error = threads[t].error]]
    /\ UNCHANGED entered
    /\ UNCHANGED <<trackVars, jobVars, validationVars, dkimVars>>
    /\ UNCHANGED <<mails, pipelineVars, submitVars, inboundVars>>

rabbitmq_context(t) ==
    \/ RC_Enter(t)
    \/ RC_Body(t)
    \/ RC_Exit(t)

PoolIdle ==
    /\ pool = <<>>
    /\ conns = <<>>
    /\ threads = [t \in PoolThreads |-> ThreadOut]
    /\ entered = 0

----------------------------------------------------------------------------
(* mail.api.track.open: the open-tracking endpoint                         *)

\* calls of the endpoint in a run
MaxOpens == 3

OpenCallers == {"o1", "o2"}
TrackedMails == {"t1", "t2"}
\* ids a caller may send: the tracking id of t1, the one of t2, an unknown
\* one and the empty one
TrackingIds == {"X", "Y", "Z", ""}

\* the tracking columns of an Outgoing Mail
TrackedDoc(track, docstatus, tracking_id) ==
    [track |-> track, docstatus |-> docstatus, tracking_id |-> tracking_id,
     open_count |-> 0, first_opened_at |-> NULL, last_opened_at |-> NULL]

\* UPDATE tabOutgoing Mail SET first_opened_at = CASE WHEN first_opened_at
\* IS NULL THEN now ELSE first_opened_at END, last_opened_at = now,
\* open_count = open_count + 1 WHERE track = 1 AND docstatus = 1 AND
\* tracking_id = id
update_opened(table, id, now) ==
    [m \in DOMAIN table |->
        IF table[m].track = 1 /\ table[m].docstatus = 1
           /\ table[m].tracking_id = id
        THEN [table[m] EXCEPT
                 !.first_opened_at = IF @ = NULL THEN now ELSE @,
                 !.last_opened_at = now,
                 !.open_count = @ + 1]
        ELSE table[m]]

OpenIdle == [pc |-> "idle", id |-> "", now |-> NULL]

\* open up to now = frappe.utils.now(); an empty id throws, which is logged
\* and answered with the pixel
Open_Begin(c) ==
    /\ openc[c].pc = "idle"
    /\ Len(opened) < MaxOpens
    /\ \E id \in TrackingIds :
          /\ opened' = Append(opened, [id |-> id, at |-> clock])
          /\ openc' = IF id = "" THEN openc
                      ELSE [openc EXCEPT ![c] =
                               [pc |-> "update", id |-> id, now |-> clock]]
    /\ UNCHANGED tracked
    /\ UNCHANGED <<poolVars, jobVars, validationVars, dkimVars>>
    /\ UNCHANGED <<mails, pipelineVars, submitVars, inboundVars>>

\* the UPDATE and frappe.db.commit()
Open_Update(c) ==
    /\ openc[c].pc = "update"
    /\ tracked' = update_opened(tracked, openc[c].id, openc[c].now)
    /\ openc' = [openc EXCEPT ![c] = OpenIdle]
    /\ UNCHANGED opened
    /\ UNCHANGED <<poolVars, jobVars, validationVars, dkimVars>>
    /\ UNCHANGED <<mails, pipelineVars, submitVars, inboundVars>>

open(c) ==
    \/ Open_Begin(c)
    \/ Open_Update(c)

TrackIdle ==
    /\ tracked = [m \in TrackedMails |->
                    IF m = "t1" THEN TrackedDoc(1, 1, "X")
                    ELSE TrackedDoc(0, 1, "Y")]
    /\ openc = [c \in OpenCallers |-> OpenIdle]
    /\ opened = <<>>

----------------------------------------------------------------------------
(* enqueue_job: the scheduler's enqueue guard                              *)

\* scheduler ticks in a run
MaxTicks == 5

JobMethods ==
    {"transfer_mails", "get_incoming_mails", "get_outgoing_mails_status",
     "process_newsletter_queue"}

\* frappe.utils.background_jobs.get_jobs(site)[site]: the methods of the
\* site's jobs, waiting or being run
get_jobs(table) == {table[i].method : i \in DOMAIN table}

\* a slip: the guard is left out
enqueue_job_unguarded(table, method) == TRUE

\* enqueue_job: frappe.enqueue is called
enqueue_job(table, method) == table = <<>> \/ method \notin get_jobs(table)

TicksIdle == [n |-> 0, at |-> [m \in JobMethods |-> "idle"]]

\* a tick of the scheduler runs enqueue_<method> up to the test of the jobs
EJ_Check(method) ==
    /\ ticks.at[method] = "idle"
    /\ ticks.n < MaxTicks
    /\ ticks' = [ticks EXCEPT
                    !.n = @ + 1,
                    !.at[method] = IF enqueue_job(rq, method) THEN "enqueue"
                                   ELSE "idle"]
    /\ UNCHANGED rq
    /\ UNCHANGED <<poolVars, trackVars, validationVars, dkimVars>>
    /\ UNCHANGED <<mails, pipelineVars, submitVars, inboundVars>>

\* frappe.enqueue(method, queue="long")
EJ_Enqueue(method) ==
    /\ ticks.at[method] = "enqueue"
    /\ rq' = Append(rq, [method |-> method, status |-> "queued"])
    /\ ticks' = [ticks EXCEPT !.at[method] = "idle"]
    /\ UNCHANGED <<poolVars, trackVars, validationVars, dkimVars>>
    /\ UNCHANGED <<mails, pipelineVars, submitVars, inboundVars>>

\* a worker of the long queue takes a waiting job
WorkerStart ==
    /\ \E i \in DOMAIN rq :
          /\ rq[i].status = "queued"
          /\ rq' = [rq EXCEPT ![i].status = "started"]
    /\ UNCHANGED ticks
    /\ UNCHANGED <<poolVars, trackVars, validationVars, dkimVars>>
    /\ UNCHANGED <<mails, pipelineVars, submitVars, inboundVars>>

\* the job ends
WorkerFinish ==
    /\ \E i \in DOMAIN rq :
          /\ rq[i].status = "started"
          /\ rq' = SubSeq(rq, 1, i - 1) \o SubSeq(rq, i + 1, Len(rq))
    /\ UNCHANGED ticks
    /\ UNCHANGED <<poolVars, trackVars, validationVars, dkimVars>>
    /\ UNCHANGED <<mails, pipelineVars, submitVars, inboundVars>>

JobsIdle ==
    /\ rq = <<>>
    /\ ticks = TicksIdle

----------------------------------------------------------------------------
(* OutgoingMail.validate_recipients and OutgoingMail.validate_attachments  *)

\* rows of the recipients table handed to validate_recipients
MaxRecipientRows == 3
\* characters of an address
MaxEmailLen == 2
\* attachments handed to validate_attachments
MaxAttachmentRows == 3

\* Mail Settings
max_recipients == 2
outgoing_max_attachments == 2
outgoing_max_attachment_size == 2
outgoing_total_attachments_size == 3

NoVerdict == [ok |-> FALSE, error |-> "not validated", recipients |-> <<>>]

\* addresses are strings over a lowercase letter, its uppercase and a blank
EmailChars == {"a", "A", " "}
Emails == UNION {[1..n -> EmailChars] : n \in 1..MaxEmailLen}
RecipientTypes == {"To", "Cc"}
RecipientRows == [type : RecipientTypes, email : Emails]
RecipientTables == UNION {[1..n -> RecipientRows] : n \in 0..MaxRecipientRows}

\* str.lower
lower(s) == [i \in DOMAIN s |-> IF s[i] = "A" THEN "a" ELSE s[i]]

\* str.strip
RECURSIVE strip(_)
strip(s) ==
    IF s = <<>> THEN s
    ELSE IF Head(s) = " " THEN strip(Tail(s))
    ELSE IF s[Len(s)] = " " THEN strip(SubSeq(s, 1, Len(s) - 1))
    ELSE s

\* frappe.utils.validate_email_address: the address when it is one, else ""
validate_email_address(email) ==
    IF email # <<>> /\ \A i \in DOMAIN email : email[i] # " " THEN email
    ELSE <<>>

\* a slip: the address is trimmed but not lowercased
normalise_email_keeping_case(email) == strip(email)

\* recipient.email = recipient.email.strip().lower()
normalise_email(email) == lower(strip(email))

\* the for-loop of validate_recipients from row i on, recipients being the
\* (type, email) pairs seen and rows the table as rewritten so far
RECURSIVE validate_recipient_rows(_, _, _)
validate_recipient_rows(rows, i, recipients) ==
    IF i > Len(rows) THEN [ok |-> TRUE, error |-> "", recipients |-> rows]
    ELSE LET email == normalise_email(rows[i].email)
             type_email == <<rows[i].type, email>>
             rewritten == [rows EXCEPT ![i].email = email]
         IN  IF validate_email_address(email) # email
             THEN [ok |-> FALSE, error |-> "Invalid recipient",
                   recipients |-> rewritten]
             ELSE IF type_email \in recipients
             THEN [ok |-> FALSE, error |-> "Duplicate recipient",
                   recipients |-> rewritten]
             ELSE validate_recipient_rows(rewritten, i + 1,
                                          recipients \cup {type_email})

\* validate_recipients: ok, or the exception that frappe.throw raises
validate_recipients(rows) ==
    IF Len(rows) > max_recipients
    THEN [ok |-> FALSE, error |-> "Recipient limit exceeded",
          recipients |-> rows]
    ELSE validate_recipient_rows(rows, 1, {})

\* validate() of an Outgoing Mail with the recipients table args
ValidateRecipients ==
    /\ verdict = NoVerdict
    /\ verdict' = validate_recipients(args)
    /\ UNCHANGED args
    /\ UNCHANGED <<poolVars, trackVars, jobVars, dkimVars>>
    /\ UNCHANGED <<mails, pipelineVars, submitVars, inboundVars>>

\* bytes in a megabyte
MB == 1024 * 1024

\* file_size values of the attachments: around the per-attachment cap and
\* around what the total cap leaves beside an attachment at the cap
AttachmentSizes ==
    LET cap == outgoing_max_attachment_size * MB
        rest == (outgoing_total_attachments_size
                   - outgoing_max_attachment_size) * MB
    IN  {cap - 1, cap, cap + 1, cap + 525, rest - 1, rest, rest + 1}
AttachmentTables ==
    UNION {[1..n -> AttachmentSizes] : n \in 0..MaxAttachmentRows}

\* flt(file_size / 1024 / 1024, 3), in thousandths of a megabyte:
\* file_size * 1000 / MB rounded to the nearest integer
flt_megabytes(file_size) == (2 * file_size * 125 + 131072) \div (2 * 131072)

RECURSIVE SumOf(_)
SumOf(s) == IF s = <<>> THEN 0 ELSE Head(s) + SumOf(Tail(s))

\* validate_attachments: ok, or the exception that frappe.throw raises
validate_attachments(sizes) ==
    LET file_size == [i \in DOMAIN sizes |-> flt_megabytes(sizes[i])]
        total_attachments_size == SumOf(file_size)
    IN  IF sizes = <<>> THEN [ok |-> TRUE, error |-> ""]
        ELSE IF Len(sizes) > outgoing_max_attachments
        THEN [ok |-> FALSE, error |-> "Attachment limit exceeded"]
        ELSE IF \E i \in DOMAIN sizes :
                   file_size[i] > outgoing_max_attachment_size * 1000
        THEN [ok |-> FALSE, error |-> "Attachment size limit exceeded"]
        ELSE IF total_attachments_size > outgoing_total_attachments_size * 1000
        THEN [ok |-> FALSE, error |-> "Attachments size limit exceeded"]
        ELSE [ok |-> TRUE, error |-> ""]

NoAttachmentVerdict == [ok |-> FALSE, error |-> "not validated"]

\* validate() of an Outgoing Mail with the attachments args
ValidateAttachments ==
    /\ verdict = NoAttachmentVerdict
    /\ verdict' = validate_attachments(args)
    /\ UNCHANGED args
    /\ UNCHANGED <<poolVars, trackVars, jobVars, dkimVars>>
    /\ UNCHANGED <<mails, pipelineVars, submitVars, inboundVars>>

ValidationIdle ==
    /\ args = <<>>
    /\ verdict = NoVerdict

----------------------------------------------------------------------------
(* DKIM Key: create_dkim_key and the rotation in after_insert               *)

\* DKIM Keys created in a run
MaxKeys == 3

DkimCallers == {"k1", "k2"}
DkimDomains == {"d", "e"}

\* what the UPDATE of one transaction does with the rows another open
\* transaction has inserted: "locking", it waits for that transaction to
\* end (InnoDB's locking read); "skipping", it does not see them (a read of
\* committed rows only)
Isolations == {"locking", "skipping"}

DkimCallIdle == [pc |-> "idle", name |-> NULL, domain_name |-> ""]

\* create_dkim_key up to the INSERT of doc.save(): enabled = 1; owner is
\* the transaction whose uncommitted row it is
insert_dkim_key(table, name, domain_name, owner) ==
    Append(table, [name |-> name, domain_name |-> domain_name, enabled |-> 1,
                   owner |-> owner])

\* the rows a statement of transaction c works on
VisibleTo(table, c) ==
    {i \in DOMAIN table : table[i].owner = "" \/ table[i].owner = c}

\* disable_existing_dkim_keys: UPDATE ... SET enabled = 0 WHERE enabled = 1
\* AND name != self.name AND domain_name = self.domain_name
disable_existing_dkim_keys(table, c, name, domain_name) ==
    [i \in DOMAIN table |->
        IF /\ i \in VisibleTo(table, c)
           /\ table[i].enabled = 1
           /\ table[i].name # name
           /\ table[i].domain_name = domain_name
        THEN [table[i] EXCEPT !.enabled = 0]
        ELSE table[i]]

\* rows of open transactions other than c's
OpenRowsOfOthers(c) ==
    {i \in DOMAIN dkim_keys : dkim_keys[i].owner \notin {"", c}}

\* new_doc, doc.save(): validate and INSERT. Under "locking" the INSERT
\* waits while another transaction holds the locks of its UPDATE
DK_Insert(c) ==
    /\ dkimc.call[c].pc = "idle"
    /\ dkimc.created < MaxKeys
    /\ dkimc.isolation = "locking"
          => \A o \in DkimCallers \ {c} : dkimc.call[o].pc # "disabled"
    /\ \E domain_name \in DkimDomains :
          /\ dkim_keys' = insert_dkim_key(dkim_keys, dkimc.created + 1,
                                          domain_name, c)
          /\ dkimc' = [dkimc EXCEPT
                          !.created = @ + 1,
                          !.call[c] = [pc |-> "after_insert",
                                       name |-> dkimc.created + 1,
                                       domain_name |-> domain_name]]
    /\ UNCHANGED <<poolVars, trackVars, jobVars, validationVars>>
    /\ UNCHANGED <<mails, pipelineVars, submitVars, inboundVars>>

\* after_insert: create_or_update_dns_record, disable_existing_dkim_keys
DK_Disable(c) ==
    /\ dkimc.call[c].pc = "after_insert"
    /\ dkimc.isolation = "locking" => OpenRowsOfOthers(c) = {}
    /\ dkim_keys' = disable_existing_dkim_keys(dkim_keys, c, dkimc.call[c].name,
                                               dkimc.call[c].domain_name)
    /\ dkimc' = [dkimc EXCEPT !.call[c].pc = "disabled"]
    /\ UNCHANGED <<poolVars, trackVars, jobVars, validationVars>>
    /\ UNCHANGED <<mails, pipelineVars, submitVars, inboundVars>>

\* the request ends and its transaction is committed
DK_Commit(c) ==
    /\ dkimc.call[c].pc = "disabled"
    /\ dkim_keys' = [i \in DOMAIN dkim_keys |->
                        IF dkim_keys[i].owner = c
                        THEN [dkim_keys[i] EXCEPT !.owner = ""]
                        ELSE dkim_keys[i]]
    /\ dkimc' = [dkimc EXCEPT !.call[c] = DkimCallIdle]
    /\ UNCHANGED <<poolVars, trackVars, jobVars, validationVars>>
    /\ UNCHANGED <<mails, pipelineVars, submitVars, inboundVars>>

\* under "locking" two transactions that each wait for the other's row are
\* a deadlock: the database rolls one of them back
DK_Deadlock(c) ==
    /\ dkimc.isolation = "locking"
    /\ dkimc.call[c].pc = "after_insert"
    /\ \E o \in DkimCallers \ {c} : dkimc.call[o].pc = "after_insert"
    /\ LET Kept(row) == row.owner # c
       IN  dkim_keys' = SelectSeq(dkim_keys, Kept)
    /\ dkimc' = [dkimc EXCEPT !.call[c] = DkimCallIdle]
    /\ UNCHANGED <<poolVars, trackVars, jobVars, validationVars>>
    /\ UNCHANGED <<mails, pipelineVars, submitVars, inboundVars>>

create_dkim_key(c) ==
    \/ DK_Insert(c)
    \/ DK_Disable(c)
    \/ DK_Commit(c)
    \/ DK_Deadlock(c)

DkimIdle ==
    /\ dkim_keys = <<>>
    /\ dkimc = [isolation |-> "locking", created |-> 0,
                call |-> [c \in DkimCallers |-> DkimCallIdle]]

\* the pool, the tracking columns, the job queue, the validations and the
\* DKIM keys at rest
ServiceIdle ==
    /\ PoolIdle
    /\ TrackIdle
    /\ JobsIdle
    /\ ValidationIdle
    /\ DkimIdle

----------------------------------------------------------------------------
(* Specifications of the inbound side                                      *)

\* everything is enabled, no notification on reject
SiteAllEnabled ==
    [domain_enabled |-> TRUE, alias_enabled |-> TRUE,
     mailbox |-> [m \in Mailboxes |-> [enabled |-> TRUE, incoming |-> TRUE]],
     send_notification_on_reject |-> FALSE]

\* the inbound side at rest
InboundIdle ==
    /\ site = SiteAllEnabled
    /\ inq = <<>>
    /\ delivered_in = 0
    /\ gim = GIMIdle
    /\ incoming = <<>>
    /\ bounces = <<>>
    /\ clock = 1
    /\ histories = <<>>
    /\ pullc = [c \in Clients |-> PullIdle]
    /\ pulls = <<>>

----------------------------------------------------------------------------
(* Specifications of the outbound pipeline: two submitted mails, m1 sent  *)
(* through the API (its transfer_now job is enqueued), m2 a newsletter     *)

InitPipeline ==
    /\ mails = [m \in PipelineMails |->
                  IF m = "m1" THEN NewDoc({"a", "b"}, FALSE, TRUE, 1)
                  ELSE NewDoc({"c"}, TRUE, FALSE, 2)]
    /\ tn = [m \in MailNames |-> IF m = "m1" THEN "queued" ELSE "idle"]
    /\ tm = TMIdle
    /\ outq = <<>>
    /\ agentHas = {}
    /\ statusq = <<>>
    /\ retried = 0
    /\ nlq = <<>>
    /\ pnq = PNQIdle
    /\ api = [c \in DirectMails \cup NewsletterMails |-> "none"]
    /\ InboundIdle
    /\ ServiceIdle

\* Spec: every handler is one step
Init ==
    /\ InitPipeline
    /\ goms = GOMSIdle
    /\ hooksLeft = MaxHooks

Next ==
    \/ \E m \in PipelineMails : transfer_now(m)
    \/ \E m \in PipelineMails : retry_failed_mail(m)
    \/ \E m \in PipelineMails : retry_bounced_mail(m)
    \/ transfer_mails
    \/ AgentConsume
    \/ AgentEmit
    \/ get_outgoing_mails_status

Spec == Init /\ [][Next]_vars

\* SpecTransfer: the transfer operations step by step, one step per commit
\* or publish, interleaved with each other and with the reconciler
InitTransfer ==
    /\ InitPipeline
    /\ goms = GOMSIdle
    /\ hooksLeft = MaxRaceHooks

NextTransfer ==
    \/ \E m \in PipelineMails : transfer_now_steps(m)
    \/ \E m \in PipelineMails : RetryFailed_Begin(m)
    \/ \E m \in PipelineMails : RetryBounced_Begin(m)
    \/ transfer_mails_steps
    \/ AgentConsume
    \/ AgentEmit
    \/ get_outgoing_mails_status

SpecTransfer == InitTransfer /\ [][NextTransfer]_vars

----------------------------------------------------------------------------
(* SpecSubmit: the submission APIs and process_newsletter_queue, from an   *)
(* empty Outgoing Mail table                                               *)

InitSubmit ==
    /\ mails = [m \in {} |-> NewDoc({}, FALSE, FALSE, 0)]
    /\ tn = [m \in MailNames |-> "idle"]
    /\ tm = TMIdle
    /\ outq = <<>>
    /\ agentHas = {}
    /\ statusq = <<>>
    /\ goms = GOMSIdle
    /\ hooksLeft = 0
    /\ retried = 0
    /\ nlq = <<>>
    /\ pnq = PNQIdle
    /\ api = [c \in DirectMails \cup NewsletterMails |-> "none"]
    /\ InboundIdle
    /\ ServiceIdle

NextSubmit ==
    \/ \E name \in DirectMails : send(name)
    \/ \E name \in DirectMails : send_raw(name)
    \/ \E names \in SUBSET DirectMails : send_batch(names)
    \/ \E names \in SUBSET DirectMails : send_raw_batch(names)
    \/ \E names \in SUBSET NewsletterMails : send_newsletter(names)
    \/ process_newsletter_queue

SpecSubmit == InitSubmit /\ [][NextSubmit]_vars

\* the scheduler keeps starting process_newsletter_queue and the job keeps
\* running; a bulk insert that is retried again and again succeeds at last
FairSpecSubmit ==
    /\ SpecSubmit
    /\ WF_vars(process_newsletter_queue)
    /\ SF_vars(PNQ_InsertOk)

\* the job keeps running, and nothing is assumed about bulk_insert: it may
\* raise each time it is called
FairSpecNewsletter == SpecSubmit /\ WF_vars(process_newsletter_queue)

----------------------------------------------------------------------------
(* Specifications of the inbound side, continued                           *)

\* the outbound side at rest
OutboundIdle ==
    /\ mails = [m \in {} |-> NewDoc({}, FALSE, FALSE, 0)]
    /\ tn = [m \in MailNames |-> "idle"]
    /\ tm = TMIdle
    /\ outq = <<>>
    /\ agentHas = {}
    /\ statusq = <<>>
    /\ goms = GOMSIdle
    /\ hooksLeft = 0
    /\ retried = 0
    /\ nlq = <<>>
    /\ pnq = PNQIdle
    /\ api = [c \in DirectMails \cup NewsletterMails |-> "none"]

\* SpecIntake: the receiving agent and get_incoming_mails, for every
\* configuration of the domain, the alias and the mailboxes
InitIntake ==
    /\ OutboundIdle
    /\ ServiceIdle
    /\ site \in SiteConfigs
    /\ inq = <<>>
    /\ delivered_in = 0
    /\ gim = GIMIdle
    /\ incoming = <<>>
    /\ bounces = <<>>
    /\ clock = 1
    /\ histories = <<>>
    /\ pullc = [c \in Clients |-> PullIdle]
    /\ pulls = <<>>

NextIntake ==
    \/ AgentDeliver
    \/ get_incoming_mails

SpecIntake == InitIntake /\ [][NextIntake]_vars

\* SpecPull: two clients pulling mailbox "a" while mails arrive; the
\* statements of a request interleave with those of the other client
InitPull ==
    /\ OutboundIdle
    /\ ServiceIdle
    /\ site \in {[SiteAllEnabled EXCEPT !.mailbox["a"].incoming = i] :
                    i \in BOOLEAN}
    /\ inq = <<>>
    /\ delivered_in = 0
    /\ gim = GIMIdle
    /\ incoming = <<>>
    /\ bounces = <<>>
    /\ clock = 1
    /\ histories = <<>>
    /\ pullc = [c \in Clients |-> PullIdle]
    /\ pulls = <<>>

NextPull ==
    \/ pull("c1")
    \/ pull_raw("c2")
    \/ IncomingArrives
    \/ Tick

SpecPull == InitPull /\ [][NextPull]_vars

\* the pulls of one client, with Incoming Mails that become visible at commit
NextCursor ==
    \/ pull("c1")
    \/ IncomingCommitted
    \/ Tick

SpecCursor == InitPull /\ [][NextCursor]_vars

----------------------------------------------------------------------------
(* Specifications of the services                                         *)

\* SpecPool: threads entering and leaving rabbitmq_context blocks
InitPool ==
    /\ OutboundIdle
    /\ InboundIdle
    /\ ServiceIdle

NextPool == \E t \in PoolThreads : rabbitmq_context(t)

SpecPool == InitPool /\ [][NextPool]_vars

\* SpecTrack: callers of the open-tracking endpoint while time passes; mail
\* t1 is submitted and tracked, mail t2 is not tracked or not submitted
InitTrack ==
    /\ OutboundIdle
    /\ InboundIdle
    /\ PoolIdle
    /\ JobsIdle
    /\ ValidationIdle
    /\ DkimIdle
    /\ tracked \in {[m \in TrackedMails |->
                       IF m = "t1" THEN TrackedDoc(1, 1, "X") ELSE other] :
                    other \in {TrackedDoc(0, 1, "Y"), TrackedDoc(1, 0, "Y")}}
    /\ openc = [c \in OpenCallers |-> OpenIdle]
    /\ opened = <<>>

NextTrack ==
    \/ \E c \in OpenCallers : open(c)
    \/ Tick

SpecTrack == InitTrack /\ [][NextTrack]_vars

\* SpecJobs: scheduler ticks and the workers of the long queue
InitJobs ==
    /\ OutboundIdle
    /\ InboundIdle
    /\ ServiceIdle

NextJobs ==
    \/ \E method \in JobMethods : EJ_Check(method)
    \/ \E method \in JobMethods : EJ_Enqueue(method)
    \/ WorkerStart
    \/ WorkerFinish

SpecJobs == InitJobs /\ [][NextJobs]_vars

\* SpecRecipients: validate_recipients on every recipients table
InitRecipients ==
    /\ OutboundIdle
    /\ InboundIdle
    /\ PoolIdle
    /\ TrackIdle
    /\ JobsIdle
    /\ DkimIdle
    /\ args \in RecipientTables
    /\ verdict = NoVerdict

SpecRecipients == InitRecipients /\ [][ValidateRecipients]_vars

\* SpecAttachments: validate_attachments on every attachments table
InitAttachments ==
    /\ OutboundIdle
    /\ InboundIdle
    /\ PoolIdle
    /\ TrackIdle
    /\ JobsIdle
    /\ DkimIdle
    /\ args \in AttachmentTables
    /\ verdict = NoAttachmentVerdict

SpecAttachments == InitAttachments /\ [][ValidateAttachments]_vars

\* SpecDkim: two callers creating DKIM Keys, under either isolation
InitDkim ==
    /\ OutboundIdle
    /\ InboundIdle
    /\ PoolIdle
    /\ TrackIdle
    /\ JobsIdle
    /\ ValidationIdle
    /\ dkim_keys = <<>>
    /\ dkimc \in {[isolation |-> i, created |-> 0,
                   call |-> [c \in DkimCallers |-> DkimCallIdle]] :
                  i \in Isolations}

NextDkim == \E c \in DkimCallers : create_dkim_key(c)

SpecDkim == InitDkim /\ [][NextDkim]_vars

\* Pending mails of a batch run: enough for three failed batches and one
\* mail more
MaxBatchMails == 3 * max_batch_size + 1

\* mail m of n: every combination of newsletter and root domain occurs;
\* submitted in the order of the names, against it, or all at once
BatchDoc(m, n, order) ==
    NewDoc({"r"}, m % 2 = 0, (m \div 2) % 2 = 0,
           IF order = "ascending" THEN m
           ELSE IF order = "descending" THEN n + 1 - m
           ELSE 1)

\* mails of a run of SpecPriority: one of each combination
MaxPriorityMails == 4

InitBatchMails(most) ==
    /\ InboundIdle
    /\ ServiceIdle
    /\ \E n \in 0..most,
          order \in {"ascending", "descending", "together"} :
          mails = [m \in 1..n |-> BatchDoc(m, n, order)]
    /\ tm = TMIdle
    /\ outq = <<>>
    /\ agentHas = {}
    /\ statusq = <<>>
    /\ goms = GOMSIdle
    /\ hooksLeft = 0
    /\ retried = 0
    /\ nlq = <<>>
    /\ pnq = PNQIdle
    /\ api = [c \in DirectMails \cup NewsletterMails |-> "none"]

\* SpecBatch: runs of transfer_mails, step by step, on N Pending mails
InitBatch ==
    /\ InitBatchMails(MaxBatchMails)
    /\ tn = [m \in DOMAIN mails |-> "idle"]

SpecBatch == InitBatch /\ [][transfer_mails_steps]_vars

FairSpecBatch == SpecBatch /\ WF_vars(transfer_mails_steps)

\* SpecPriority: transfer_mails and the transfer_now jobs that on_submit
\* enqueued for the mails that are no newsletters
InitPriority ==
    /\ InitBatchMails(MaxPriorityMails)
    /\ tn = [m \in DOMAIN mails |->
                IF mails[m].is_newsletter THEN "idle" ELSE "queued"]

NextPriority ==
    \/ transfer_mails
    \/ \E m \in DOMAIN mails : transfer_now(m)

SpecPriority == InitPriority /\ [][NextPriority]_vars

----------------------------------------------------------------------------
(* SpecStatus: the sending agent reports on a mail it has taken while the  *)
(* scheduler keeps running get_outgoing_mails_status                       *)

\* m1 has been transferred and taken by the agent
InitStatus ==
    /\ mails = [m \in {"m1"} |->
                  [NewDoc({"a", "b"}, FALSE, TRUE, 1) EXCEPT
                      !.status = "Transferred", !.transferred_at = 1]]
    /\ tn = [m \in MailNames |-> "idle"]
    /\ tm = TMIdle
    /\ outq = <<>>
    /\ agentHas = {"m1"}
    /\ statusq = <<>>
    /\ goms = GOMSIdle
    /\ hooksLeft = MaxHooks
    /\ retried = 0
    /\ nlq = <<>>
    /\ pnq = PNQIdle
    /\ api = [c \in DirectMails \cup NewsletterMails |-> "none"]
    /\ InboundIdle
    /\ ServiceIdle

NextStatus ==
    \/ AgentEmit
    \/ get_outgoing_mails_status

SpecStatus == InitStatus /\ [][NextStatus]_vars

\* every tick of the scheduler runs the job, and a started job runs on
FairSpecStatus == SpecStatus /\ WF_vars(get_outgoing_mails_status)

----------------------------------------------------------------------------
(* SpecRace: the transfer_now job of m1 and a transfer_mails run, step by  *)
(* step, with nothing else going on: every mail is Pending once            *)

InitRace ==
    /\ InitPipeline
    /\ goms = GOMSIdle
    /\ hooksLeft = 0

NextRace ==
    \/ \E m \in PipelineMails : transfer_now_steps(m)
    \/ transfer_mails_steps

SpecRace == InitRace /\ [][NextRace]_vars

----------------------------------------------------------------------------
(* SpecCrash: as SpecRace, with worker processes that may die between the  *)
(* commit of Transferring and the write of the final status, and with the  *)
(* operator's retry of a Failed mail                                       *)

\* the worker running transfer_now dies after _db_set(status="Transferring",
\* commit=True): the committed row stays, the job is not run again
TN_Crash(m) ==
    /\ tn[m] \in {"publish", "ok"}
    /\ tn' = [tn EXCEPT ![m] = "crashed"]
    /\ UNCHANGED <<mails, tm, outq, agentHas, statusq, goms, hooksLeft, retried>>
    /\ UNCHANGED <<submitVars, inboundVars, serviceVars>>

\* the worker running transfer_mails dies after the commit of the batch's
\* flip: the run is over, the scheduler starts the next one
TM_Crash ==
    /\ tm.pc = "publish"
    /\ tm' = TMIdle
    /\ UNCHANGED <<mails, tn, outq, agentHas, statusq, goms, hooksLeft, retried>>
    /\ UNCHANGED <<submitVars, inboundVars, serviceVars>>

NextCrash ==
    \/ \E m \in PipelineMails : transfer_now_steps(m)
    \/ \E m \in PipelineMails : TN_Crash(m)
    \/ \E m \in PipelineMails : RetryFailed_Begin(m)
    \/ transfer_mails_steps
    \/ TM_Crash

SpecCrash == InitRace /\ [][NextCrash]_vars

\* the scheduler keeps starting transfer_mails, and jobs that are alive run on
FairSpecCrash ==
    /\ SpecCrash
    /\ WF_vars(transfer_mails_steps)
    /\ \A m \in PipelineMails : WF_vars(transfer_now_steps(m))

----------------------------------------------------------------------------
(* Properties *)

ClaimedStatus(recipients) ==
    IF \A e \in DOMAIN recipients : recipients[e].status = "Sent" THEN "Sent"
    ELSE IF \E e \in DOMAIN recipients : recipients[e].status = "Sent"
    THEN "Partially Sent"
    ELSE IF \A e \in DOMAIN recipients : recipients[e].status = "Deferred"
    THEN "Deferred"
    ELSE "Bounced"

\* C2 (Spec): update_status without a status derives, for every document the
\* reconciler can hold: all recipients Sent -> Sent; some but not all Sent
\* -> Partially Sent; none Sent and all Deferred -> Deferred; else Bounced.
C2_DerivedStatus ==
    \A m \in DOMAIN mails :
        update_status(mails[m]).status = ClaimedStatus(mails[m].recipients)

\* update_status has derived Partially Sent from one recipient Sent and the
\* other Bounced
C2_Witness ==
    /\ mails["m1"].recipients["a"].status = "Sent"
    /\ mails["m1"].recipients["b"].status = "Bounced"
    /\ mails["m1"].status = "Partially Sent"

\* C3 (Spec): a mail whose status is Sent has all its recipients Sent.
C3_SentMeansAllSent ==
    \A m \in DOMAIN mails :
        mails[m].status = "Sent"
           => \A e \in DOMAIN mails[m].recipients :
                 mails[m].recipients[e].status = "Sent"

\* the two-recipient mail is Sent after two delivered hooks, one per recipient
C3_Witness ==
    /\ mails["m1"].status = "Sent"
    /\ hooksLeft = 0
    /\ statusq = <<>>
    /\ mails["m1"].recipients["a"].action_at # mails["m1"].recipients["b"].action_at

\* C4 (Spec), as claimed: in a run without operator retries, once a
\* per-recipient hook has been applied to a mail, its stored status is the
\* derivation of its recipients' statuses, whatever hooks follow.
C4_StatusIsDerived ==
    \A m \in DOMAIN mails :
        (/\ retried = 0
         /\ \E e \in DOMAIN mails[m].recipients : mails[m].recipients[e].status # "")
           => mails[m].status = DerivedStatus(mails[m].recipients)

\* C5 (Spec), as claimed: a recipient that is Sent stays Sent.
C5_SentStaysSent ==
    [][\A m \in DOMAIN mails : \A e \in DOMAIN mails[m].recipients :
          mails[m].recipients[e].status = "Sent"
             => mails'[m].recipients[e].status = "Sent"]_vars

\* the reconciler takes the message at the head of the status queue
Processing ==
    /\ goms.pc = "run"
    /\ statusq # <<>>
    /\ \/ statusq' = Tail(statusq)
       \/ goms'.pc = "idle"

\* C6 (Spec), as claimed, for the hooks the claim names: a deferred, bounce
\* or delivered message whose application to its (existing) mail raised is
\* not acked and stays on the queue.
C6_AckOnlyOnSuccess ==
    [][(/\ Processing
        /\ Head(statusq).hook \in RecipientHooks
        /\ Lookup(Head(statusq)) # {}
        /\ Head(statusq).bad)
          => statusq' = statusq]_vars

\* C7 (Spec), as claimed: whatever the hook kind, a message that matches no
\* mail, by its outgoing_mail when present and else by its queue_id, is
\* acked and the consumer goes on to the next message.
C7_NoMatchIsAcked ==
    [][(Processing /\ Lookup(Head(statusq)) = {})
          => (statusq' = Tail(statusq) /\ goms'.pc = "run")]_vars

\* the well-formed delivered hooks about the mails of the table
DeliveredHooks ==
    {h \in UNION {HooksAbout(m) : m \in DOMAIN mails} :
        h.hook = "delivered" /\ ~h.bad}

C9_FailedIsTerminal ==
    [][\A m \in DOMAIN mails :
          (mails[m].status = "Failed" /\ mails'[m].status # "Failed")
             => retried' = retried + 1]_vars

\* C10 (FairSpecSubmit), as claimed: a direct send that returned without an
\* error has persisted its Outgoing Mail, and every newsletter that
\* send_newsletter accepted is eventually persisted.
C10_NoSubmissionDropped ==
    /\ [](\A s \in DirectMails :
            api[s] = "ok" => (s \in DOMAIN mails /\ mails[s].status \in MailStatuses))
    /\ \A n \in NewsletterMails : (api[n] = "ok") ~> (n \in DOMAIN mails)

\* get_incoming_mails takes the message at the head of the incoming queue
IntakeStep ==
    /\ gim.pc = "run"
    /\ inq # <<>>
    /\ inq' = Tail(inq)

\* the Incoming Mail rows the step creates
NewRowIds == (Len(incoming) + 1)..Len(incoming')

\* the enabled destination mailboxes of the alias
EnabledDestinations ==
    {AliasMailboxes[i] : i \in {j \in DOMAIN AliasMailboxes :
                                   site.mailbox[AliasMailboxes[j]].enabled}}

\* C11 (SpecIntake), as claimed: for a message with valid addresses whose
\* Delivered-To is the enabled alias of an enabled domain (the alias having
\* an enabled destination mailbox), the intake creates exactly one Incoming
\* Mail per enabled destination mailbox and nothing else: no rejected
\* Incoming Mail and no bounce.
C11_AliasFanOutOnly ==
    [][(/\ IntakeStep
        /\ Head(inq).valid
        /\ site.domain_enabled
        /\ Head(inq).receiver = MailAlias
        /\ site.alias_enabled
        /\ EnabledDestinations # {})
          => /\ \A i \in NewRowIds :
                   /\ incoming'[i].is_rejected = 0
                   /\ incoming'[i].receiver \in EnabledDestinations
             /\ \A mb \in EnabledDestinations :
                   Cardinality({i \in NewRowIds : incoming'[i].receiver = mb}) = 1
             /\ bounces' = bounces]_vars

\* C12 (SpecIntake), as claimed: for a message with valid addresses in an
\* enabled domain whose receiver is not an alias, exactly one Incoming Mail
\* is created: an accepted one if the receiver is a mailbox that is enabled
\* and incoming-enabled, a rejected one otherwise.
C12_MailboxOrReject ==
    [][(/\ IntakeStep
        /\ Head(inq).valid
        /\ site.domain_enabled
        /\ Head(inq).receiver # MailAlias)
          => /\ Cardinality(NewRowIds) = 1
             /\ \A i \in NewRowIds :
                   /\ incoming'[i].receiver = Head(inq).receiver
                   /\ incoming'[i].is_rejected =
                         IF /\ Head(inq).receiver \in Mailboxes
                            /\ site.mailbox[Head(inq).receiver].enabled
                            /\ site.mailbox[Head(inq).receiver].incoming
                         THEN 0 ELSE 1]_vars

\* C13 (SpecIntake), as claimed: an Incoming Mail created on the rejection
\* path has is_rejected = 1, the fixed rejection message and status
\* Rejected; the postmaster's bounce "Undeliverable: <subject>" to the
\* Reply-To (else From) is created if and only if
\* send_notification_on_reject is set and the rejected Incoming Mail was
\* submitted, unless creating the bounce failed (which is logged); the
\* rejected Incoming Mail stays in either case.
C13_RejectionPath ==
    [][IntakeStep =>
          \A i \in NewRowIds :
              incoming'[i].is_rejected = 1
                 => /\ incoming'[i].rejection_message = RejectionMessage
                    /\ incoming'[i].status = "Rejected"
                    /\ bounces' # bounces
                          => /\ site.send_notification_on_reject
                             /\ incoming'[i].docstatus = 1
                             /\ bounces' = Append(bounces, Bounce(Head(inq)))
                    /\ (site.send_notification_on_reject
                        /\ incoming'[i].docstatus = 1)
                          => \/ bounces' = Append(bounces, Bounce(Head(inq)))
                             \/ gim'.logged = "Send Rejection Notification"]_vars

\* the responses that returned mails or an empty list
Served(source) ==
    {i \in DOMAIN pulls : pulls[i].error = "" /\ pulls[i].source = source}

MailsOf(r) == {r.mails[k] : k \in DOMAIN r.mails}

\* submitted Incoming Mails of one receiver have distinct processed_at
UniqueProcessedAt ==
    \A i, j \in DOMAIN incoming :
        (/\ i # j
         /\ incoming[i].docstatus = 1
         /\ incoming[j].docstatus = 1
         /\ incoming[i].receiver = incoming[j].receiver)
           => incoming[i].processed_at # incoming[j].processed_at

\* C14 (SpecPull): when the pulls of a (source, user, mailbox) come one
\* after the other (each begins after the one before has answered), all
\* without a last_synced_at argument, and processed_at is unique per
\* receiver, no Incoming Mail is returned by two of them.
C14_NoMailTwice ==
    \A source \in Sources :
        (/\ UniqueProcessedAt
         /\ \A i \in Served(source) : pulls[i].arg = NULL
         /\ \A i, j \in Served(source) : i < j => pulls[j].began >= i)
           => \A i, j \in Served(source) :
                 i < j => MailsOf(pulls[i]) \cap MailsOf(pulls[j]) = {}

\* two pulls without argument, one after the other, each returned a mail
C14_Witness ==
    /\ Len(pulls) = 2
    /\ UniqueProcessedAt
    /\ \A i \in 1..2 :
          /\ pulls[i].error = ""
          /\ pulls[i].source = "s1"
          /\ pulls[i].arg = NULL
          /\ pulls[i].mails # <<>>
    /\ pulls[2].began = 1

\* C15 (SpecPull), as claimed: two pulls of a (source, user, mailbox) that
\* overlap (the later to answer began before the other answered) never
\* return the same Incoming Mail.
C15_ConcurrentPullsDisjoint ==
    \A source \in Sources : \A i, j \in Served(source) :
        (i < j /\ pulls[j].began < i)
           => MailsOf(pulls[i]) \cap MailsOf(pulls[j]) = {}

\* client c answers a request with mails (or an empty list)
Serves(c) == pullc[c].pc = "serve" /\ pullc'[c].pc = "idle"

\* the response of the step
Answer == pulls'[Len(pulls')]

\* the last pull of the same (source, user, mailbox) that had answered when
\* request req began
Preceding(req) ==
    {i \in Served(req.source) :
        /\ i <= req.began
        /\ \A j \in Served(req.source) : j <= req.began => j <= i}

\* the cursor a pull leaves: last_synced_at is the processed_at of the last
\* returned mail and last_synced_mail its id; after an empty pull
\* last_synced_at is now and last_synced_mail is as before
CursorAfter(c) ==
    LET h == pullc[c].history
    IN  IF Answer.mails # <<>>
        THEN /\ histories'[h].last_synced_at =
                   incoming[Answer.mails[Len(Answer.mails)]].processed_at
             /\ histories'[h].last_synced_mail = Answer.mails[Len(Answer.mails)]
        ELSE /\ histories'[h].last_synced_at = clock
             /\ histories'[h].last_synced_mail = histories[h].last_synced_mail

\* C16 (SpecPull), amended: after a pull the stored cursor is as CursorAfter
\* says; a following pull without argument returns no mails when no mail
\* arrived in between and the pull before it returned fewer mails than its
\* limit.
C16_CursorAfterPull ==
    [][\A c \in Clients :
          Serves(c)
             => /\ CursorAfter(c)
                /\ \A i \in Preceding(pullc[c]) :
                      (/\ pullc[c].arg = NULL
                       /\ pulls[i].seen = Len(incoming)
                       /\ Len(pulls[i].mails) < pulls[i].limit)
                         => Answer.mails = <<>>]_vars

\* C16 (SpecPull), as claimed: the same, for every pull before it, also one
\* that returned as many mails as its limit allowed.
C16_AsClaimed ==
    [][\A c \in Clients :
          Serves(c)
             => /\ CursorAfter(c)
                /\ \A i \in Preceding(pullc[c]) :
                      (/\ pullc[c].arg = NULL
                       /\ pulls[i].seen = Len(incoming))
                         => Answer.mails = <<>>]_vars

\* a pull returned one mail (fewer than its limit), and the pull after it,
\* without argument and with no arrival in between, returned none
C16_Witness ==
    /\ Len(pulls) = 2
    /\ pulls[1].error = "" /\ pulls[2].error = ""
    /\ pulls[1].source = pulls[2].source
    /\ Len(pulls[1].mails) = 1
    /\ pulls[1].limit = 2
    /\ pulls[2].began = 1
    /\ pulls[2].arg = NULL
    /\ pulls[2].seen = pulls[1].seen
    /\ pulls[2].mails = <<>>
    /\ \E h \in DOMAIN histories :
          /\ histories[h].last_synced_mail = pulls[1].mails[1]
          /\ histories[h].last_synced_at > incoming[pulls[1].mails[1]].processed_at

\* the submitted mails of the mailbox after cursor (no lower bound if NULL)
After(cursor) ==
    {i \in DOMAIN incoming :
        /\ incoming[i].docstatus = 1
        /\ incoming[i].receiver = PulledMailbox
        /\ (cursor = NULL \/ incoming[i].processed_at > cursor)}

\* ms is the first `limit` of the set ids in ascending processed_at order
FirstOf(ms, ids, limit) ==
    /\ Len(ms) = IF Cardinality(ids) < limit THEN Cardinality(ids) ELSE limit
    /\ \A k \in DOMAIN ms : ms[k] \in ids
    /\ \A k, l \in DOMAIN ms :
          k < l => /\ ms[k] # ms[l]
                   /\ incoming[ms[k]].processed_at <= incoming[ms[l]].processed_at
    /\ \A i \in ids \ {ms[k] : k \in DOMAIN ms} : \A k \in DOMAIN ms :
          incoming[ms[k]].processed_at <= incoming[i].processed_at

\* C17 (SpecPull): a pull returns exactly the first `limit` mails, in
\* ascending processed_at order, of the submitted Incoming Mails of the
\* mailbox with processed_at after the effective cursor: the instant of the
\* last_synced_at argument when given, otherwise the cursor stored in the
\* history (read when no other pull has answered since the request began).
C17_PullReturnsFirstLimit ==
    [][\A c \in Clients :
          Serves(c)
             => /\ pullc[c].arg # NULL
                      => FirstOf(Answer.mails, After(pullc[c].arg - UtcAhead),
                                 pullc[c].limit)
                /\ (pullc[c].arg = NULL /\ Len(pulls) = pullc[c].began)
                      => \A h \in ExistingHistory(histories, pullc[c].source,
                                                  MailboxUser, PulledMailbox) :
                            FirstOf(Answer.mails,
                                    After(histories[h].last_synced_at),
                                    pullc[c].limit)]_vars

\* a pull with an argument and limit 1 returned the older of two mails that
\* were after the argument; a draft of the mailbox was left out
C17_Witness ==
    \E i \in DOMAIN pulls :
        /\ pulls[i].error = ""
        /\ pulls[i].arg # NULL
        /\ pulls[i].limit = 1
        /\ Len(pulls[i].mails) = 1
        /\ \E j \in DOMAIN incoming :
              /\ incoming[j].docstatus = 1
              /\ incoming[j].receiver = PulledMailbox
              /\ incoming[j].processed_at >
                    incoming[pulls[i].mails[1]].processed_at

\* C18 (SpecPull), as claimed: whatever argument the client passes, a pull
\* that no other pull overlaps never lowers the stored last_synced_at.
C18_CursorNeverDecreases ==
    [][\A c \in Clients :
          (Serves(c) /\ Len(pulls) = pullc[c].began)
             => \A h \in DOMAIN histories :
                   histories'[h].last_synced_at >= histories[h].last_synced_at]_vars

\* C19 (SpecPull), as claimed: a request for more than max_sync_via_api
\* mails (to a mailbox that may be pulled) is served, with at most
\* max_sync_via_api mails.
C19_LimitIsClamped ==
    \A i \in DOMAIN pulls :
        (pulls[i].limit > max_sync_via_api /\ pulls[i].error # "mailbox")
           => /\ pulls[i].error = ""
              /\ Len(pulls[i].mails) <= max_sync_via_api

AtMostOnePerTriple(table) ==
    \A h1, h2 \in DOMAIN table :
        (/\ table[h1].source = table[h2].source
         /\ table[h1].user = table[h2].user
         /\ table[h1].mailbox = table[h2].mailbox)
           => h1 = h2

\* C20 (SpecPull): there is at most one Mail Sync History per (source, user,
\* mailbox), also when two first pulls of a triple run concurrently: a row
\* is added only for a triple that has none, and every pull that is served
\* uses the row of its triple.
C20_OneHistoryPerTriple ==
    [][/\ AtMostOnePerTriple(histories')
       /\ Len(histories') > Len(histories)
             => /\ Len(histories') = Len(histories) + 1
                /\ ExistingHistory(histories, histories'[Len(histories')].source,
                                   histories'[Len(histories')].user,
                                   histories'[Len(histories')].mailbox) = {}
       /\ \A c \in Clients :
             Serves(c)
                => ExistingHistory(histories, pullc[c].source, MailboxUser,
                                   PulledMailbox) = {pullc[c].history}]_vars

\* two first pulls of (s1, user, a) ran concurrently: one created the
\* history and was served, the other was refused by the unique index
C20_Witness ==
    /\ Len(histories) = 1
    /\ Len(pulls) = 2
    /\ \E i \in DOMAIN pulls : pulls[i].error = "duplicate"
    /\ \E i \in DOMAIN pulls : pulls[i].error = "" /\ pulls[i].source = "s1"

\* threads that hold a connection of the pool
Borrowers == {t \in PoolThreads : threads[t].connection # NULL}

\* C21 (SpecPool), as claimed: the connections handed out by get_connection
\* and not yet returned are never more than pool_size.
C21_PoolIsBounded == Cardinality(Borrowers) <= pool_size

\* thread t leaves its with-block
Leaves(t) == threads[t].pc = "finally" /\ threads'[t].pc = "out"

\* a block was entered and its get_connection raised: no thread is inside
\* a block that was not before
FailsToAcquire ==
    /\ entered' = entered + 1
    /\ \A t \in PoolThreads : threads'[t].pc = "in" => threads[t].pc = "in"

\* every connection was given back as often as it was handed out, but for
\* the time a thread holds it; it is held by a thread, in the pool once, or
\* closed
PoolAccounts ==
    \A c \in DOMAIN conns :
        LET holders == {t \in PoolThreads : threads[t].connection = c}
            places == {i \in DOMAIN pool : pool[i] = c}
        IN  /\ conns[c].returns = conns[c].borrows - Cardinality(holders)
            /\ Cardinality(holders) <= 1
            /\ conns[c].state = "borrowed" <=> holders # {}
            /\ Cardinality(places) = IF conns[c].state = "pooled" THEN 1 ELSE 0

\* C22 (SpecPool): a connection obtained through rabbitmq_context is given
\* back exactly once when the with-block exits, normally or by an exception:
\* it is put into the pool, or closed when the pool is full; nothing else
\* gives a connection back, and a get_connection that raises returns
\* nothing to the pool.
C22_ReturnedExactlyOnce ==
    [][/\ PoolAccounts'
       /\ \A t \in PoolThreads :
             Leaves(t)
                => LET c == threads[t].connection
                   IN  /\ conns'[c].returns = conns[c].returns + 1
                       /\ IF Len(pool) >= pool_size
                          THEN conns'[c].state = "closed" /\ pool' = pool
                          ELSE conns'[c].state = "pooled"
                               /\ pool' = Append(pool, c)
       /\ FailsToAcquire => pool' = pool /\ conns' = conns
       /\ \A c \in DOMAIN conns :
             conns'[c].returns # conns[c].returns
                => \E t \in PoolThreads : Leaves(t) /\ threads[t].connection = c
      ]_vars

\* a block was left by an exception, one connection went back to the pool
\* and another was closed because the pool was full
C22_Witness ==
    /\ \E t \in PoolThreads :
          threads[t].pc = "out" /\ threads[t].error = "Exception"
    /\ \E c \in DOMAIN conns : conns[c].state = "closed" /\ conns[c].returns = 1
    /\ \E c \in DOMAIN conns : conns[c].state = "pooled" /\ conns[c].returns >= 1

\* the calls of the endpoint that count for a mail: those with its
\* tracking id, if the mail is submitted and tracked
CallsFor(doc) ==
    IF doc.track = 1 /\ doc.docstatus = 1
    THEN {i \in DOMAIN opened : opened[i].id = doc.tracking_id}
    ELSE {}

\* C23 (SpecTrack), as claimed: once every call has ended, a submitted,
\* tracked mail has open_count = the number of calls with its id,
\* first_opened_at = the time of the first of them and last_opened_at = the
\* time of the latest, in any interleaving; no other mail is changed.
C23_OpenTracking ==
    (\A c \in OpenCallers : openc[c].pc = "idle")
       => \A m \in TrackedMails :
             LET calls == CallsFor(tracked[m])
             IN  /\ tracked[m].open_count = Cardinality(calls)
                 /\ \A i \in calls :
                       /\ (\A j \in calls : i <= j)
                             => tracked[m].first_opened_at = opened[i].at
                       /\ (\A j \in calls : j <= i)
                             => tracked[m].last_opened_at = opened[i].at
                 /\ calls = {} => /\ tracked[m].first_opened_at = NULL
                                  /\ tracked[m].last_opened_at = NULL

\* the waiting jobs of a method
Queued(table, method) ==
    {i \in DOMAIN table : table[i].method = method /\ table[i].status = "queued"}

\* C24 (SpecJobs): a job is enqueued only if no job with the same method is
\* waiting for the site, so at most one instance of each of transfer_mails,
\* get_incoming_mails, get_outgoing_mails_status and
\* process_newsletter_queue is queued at a time.
C24_OneJobPerMethod ==
    [][/\ \A method \in JobMethods : Cardinality(Queued(rq', method)) <= 1
       /\ Len(rq') > Len(rq)
             => /\ Len(rq') = Len(rq) + 1
                /\ Queued(rq, rq'[Len(rq')].method) = {}]_vars

\* a tick found transfer_mails queued and enqueued nothing, while another
\* job was enqueued and started
C24_Witness ==
    /\ ticks.n >= 3
    /\ Len(rq) = 2
    /\ \E i \in DOMAIN rq :
          rq[i].method = "transfer_mails" /\ rq[i].status = "queued"
    /\ \E i \in DOMAIN rq : rq[i].status = "started"
    /\ \A method \in JobMethods : ticks.at[method] = "idle"

\* the priority the broker gives a message: a message published without
\* the property has priority 0
BrokerPriority(msg) == IF msg.priority = NULL THEN 0 ELSE msg.priority

\* C25 (SpecPriority): a message published by transfer_mails has priority 0
\* when its mail is a newsletter (also when the mail's domain is the root
\* domain), else 2 when the domain is the root domain, else 1; a message
\* published by transfer_now has priority 3; both declare the queue with
\* x-max-priority 3.
C25_Priorities ==
    \A i \in DOMAIN outq :
        LET msg == outq[i]
            doc == mails[msg.outgoing_mail]
        IN  /\ msg.x_max_priority = 3
            /\ msg.by = "transfer_now" => msg.priority = 3
            /\ msg.by = "transfer_mails" =>
                  BrokerPriority(msg) = IF doc.is_newsletter THEN 0
                                        ELSE IF doc.root_domain THEN 2
                                        ELSE 1

\* the queue holds a newsletter of the root domain published with priority
\* 0, a root-domain mail published by transfer_mails with priority 2 and a
\* mail published by transfer_now
C25_Witness ==
    /\ \E i \in DOMAIN outq :
          /\ outq[i].by = "transfer_mails"
          /\ mails[outq[i].outgoing_mail].is_newsletter
          /\ mails[outq[i].outgoing_mail].root_domain
          /\ BrokerPriority(outq[i]) = 0
    /\ \E i \in DOMAIN outq :
          /\ outq[i].by = "transfer_mails"
          /\ ~mails[outq[i].outgoing_mail].is_newsletter
          /\ BrokerPriority(outq[i]) = 2
    /\ \E i \in DOMAIN outq :
          /\ outq[i].by = "transfer_now"
          /\ outq[i].priority = 3

PendingMails == {m \in DOMAIN mails : mails[m].status = "Pending"}

\* C26 (FairSpecBatch): every run of transfer_mails ends; it returns only
\* when no Pending mail is left or when the third batch has failed; a failed
\* attempt leaves the mails of its batch Failed with the traceback as
\* error_log; no batch is selected once three have failed.
C26_RunTerminates ==
    /\ (tm.pc # "idle") ~> (tm.pc = "idle")
    /\ [][/\ tm.pc # "idle" /\ tm'.pc = "idle"
                => PendingMails = {} \/ tm.total_failures = max_failures
          /\ tm.pc # "idle" /\ tm'.total_failures # tm.total_failures
                /\ tm'.pc # "idle"
                => /\ tm'.total_failures = tm.total_failures + 1
                   /\ tm'.total_failures <= max_failures
                   /\ tm.batch # <<>>
                   /\ \A m \in Range(tm.batch) :
                         /\ mails'[m].status = "Failed"
                         /\ mails'[m].error_log
          /\ tm.pc # "idle" /\ Len(tm'.batches) > Len(tm.batches)
                => tm.total_failures < max_failures]_vars

\* three batches have failed while a Pending mail is still left
C26_Witness ==
    /\ tm.pc = "select"
    /\ tm.total_failures = max_failures
    /\ Len(tm.batches) = max_failures
    /\ PendingMails # {}
    /\ \A i \in DOMAIN tm.batches : \A m \in Range(tm.batches[i]) :
          mails[m].status = "Failed" /\ mails[m].error_log

\* the mails of the batches the run has selected
Batched(run) == UNION {Range(run.batches[i]) : i \in DOMAIN run.batches}

\* C27 (SpecBatch): a run of transfer_mails over N Pending mails in which no
\* attempt fails selects ceil(N / max_batch_size) batches of at most
\* max_batch_size mails each, in non-decreasing submitted_at order across
\* the batches, and returns with all N mails Transferred and their
\* transferred_at set.
C27_BatchesOfARun ==
    [][/\ tm'.pc # "idle" /\ tm'.total_failures = 0
             => PendingMails' \cup Batched(tm') = PendingMails \cup Batched(tm)
       /\ tm.pc = "select" /\ tm'.pc = "idle" /\ tm.total_failures = 0
             => LET N == Cardinality(Batched(tm))
                IN  /\ PendingMails = {}
                    /\ Len(tm.batches) =
                          (N + max_batch_size - 1) \div max_batch_size
                    /\ \A i \in DOMAIN tm.batches :
                          Len(tm.batches[i]) \in 1..max_batch_size
                    /\ \A i, j \in DOMAIN tm.batches :
                          i < j =>
                             /\ Range(tm.batches[i]) \cap Range(tm.batches[j]) = {}
                             /\ \A m \in Range(tm.batches[i]),
                                   o \in Range(tm.batches[j]) :
                                   mails[m].submitted_at <= mails[o].submitted_at
                    /\ \A m \in Batched(tm) :
                          /\ mails[m].status = "Transferred"
                          /\ mails[m].transferred_at # NULL]_vars

\* a run without a failure is about to return: seven mails, submitted
\* against the order of their names, went out in four batches
C27_Witness ==
    /\ tm.pc = "select"
    /\ tm.total_failures = 0
    /\ PendingMails = {}
    /\ Len(mails) = MaxBatchMails
    /\ Len(tm.batches) = max_failures + 1
    /\ tm.batches[1][1] = Len(mails)
    /\ Len(tm.batches[Len(tm.batches)]) = 1

\* rows i and j of a recipients table name the same recipient
SameRecipient(rows, i, j) ==
    /\ i # j
    /\ rows[i].type = rows[j].type
    /\ lower(strip(rows[i].email)) = lower(strip(rows[j].email))

\* C28 (SpecRecipients): a recipients table that validate_recipients accepts
\* has at most one row per (type, lowercased email), its emails trimmed and
\* lowercased; a table with two rows of the same type whose emails agree
\* after trimming and lowercasing is rejected.
C28_NoDuplicateRecipients ==
    /\ verdict.ok =>
          /\ Len(verdict.recipients) = Len(args)
          /\ \A i \in DOMAIN args :
                /\ verdict.recipients[i].type = args[i].type
                /\ verdict.recipients[i].email = lower(strip(args[i].email))
          /\ \A i, j \in DOMAIN verdict.recipients :
                i # j =>
                   \/ verdict.recipients[i].type # verdict.recipients[j].type
                   \/ lower(verdict.recipients[i].email)
                         # lower(verdict.recipients[j].email)
    /\ verdict # NoVerdict
          /\ (\E i, j \in DOMAIN args : SameRecipient(args, i, j))
          => ~verdict.ok

\* an accepted table: the same address, written in two ways, as To and as Cc
C28_Witness ==
    /\ verdict.ok
    /\ \E i, j \in DOMAIN args :
          /\ args[i].type # args[j].type
          /\ args[i].email # args[j].email
          /\ args[i].email # verdict.recipients[i].email
          /\ verdict.recipients[i].email = verdict.recipients[j].email

\* C29 (SpecAttachments): validate_attachments accepts a table, within the
\* attachment count, whose every file_size is at most the per-attachment
\* cap and whose sizes add up to at most the total cap, the caps themselves
\* included; it rejects a table with an attachment one byte or more over
\* the per-attachment cap, or adding up to one byte or more over the total
\* cap.
C29_AttachmentCaps ==
    verdict # NoAttachmentVerdict /\ Len(args) \in 1..outgoing_max_attachments
        => LET within ==
                  /\ \A i \in DOMAIN args :
                        args[i] <= outgoing_max_attachment_size * MB
                  /\ SumOf(args) <= outgoing_total_attachments_size * MB
           IN  verdict.ok <=> within

\* the keys of a domain, and those of them that are enabled
KeysOf(domain_name) ==
    {i \in DOMAIN dkim_keys : dkim_keys[i].domain_name = domain_name}
EnabledKeysOf(domain_name) ==
    {i \in KeysOf(domain_name) : dkim_keys[i].enabled = 1}

\* C30 (SpecDkim): once the creations of DKIM keys, two concurrent ones
\* included, have ended, every domain that has keys has exactly one
\* enabled key, the one created last.
C30_OneEnabledKey ==
    (\A c \in DkimCallers : dkimc.call[c].pc = "idle")
        => \A domain_name \in DkimDomains :
              KeysOf(domain_name) # {}
                 => \E i \in KeysOf(domain_name) :
                       /\ EnabledKeysOf(domain_name) = {i}
                       /\ \A j \in KeysOf(domain_name) :
                             dkim_keys[j].name <= dkim_keys[i].name

\* C31 (FairSpecStatus): every message placed on OUTGOING_MAIL_STATUS_QUEUE
\* is eventually fetched and acked by a scheduled run of
\* get_outgoing_mails_status, whatever the statuses of the mails are: a
\* queue that holds messages is drained.
C31_StatusQueueDrained == (statusq # <<>>) ~> (statusq = <<>>)

\* the messages about a mail on OUTGOING_MAIL_QUEUE
PublishedOf(m) == {i \in DOMAIN outq : outq[i].outgoing_mail = m}

\* C32 (SpecRace): under any interleaving of the transfer_now job of a mail
\* and a transfer_mails run, a mail that was Pending once is published to
\* OUTGOING_MAIL_QUEUE at most once.
C32_PublishedOncePerPending ==
    \A m \in DOMAIN mails : Cardinality(PublishedOf(m)) <= 1

\* the mails of the batch that the attempt under way has published
PublishedInAttempt == {tm.batch[i] : i \in 1..(tm.idx - 1)}

\* C33 (SpecBatch): in transfer_mails a mail is marked Failed only if it was
\* not published to the broker in that batch attempt: the mails published
\* before the publish that failed are not marked Failed.
C33_FailedOnlyIfUnpublished ==
    [][\A m \in DOMAIN mails :
          mails[m].status # "Failed" /\ mails'[m].status = "Failed"
             => m \notin PublishedInAttempt]_vars

\* C34 (FairSpecCrash): no mail stays in Transferring forever: a mail that
\* is Transferring eventually becomes Transferred or Failed, also when the
\* worker dies after committing Transferring, as long as the scheduled jobs
\* keep running.
C34_TransferringEnds ==
    \A m \in PipelineMails :
        (mails[m].status = "Transferring")
            ~> (mails[m].status \in {"Transferred", "Failed"})

\* C35 (SpecStatus): a mail has status Bounced only when at least one of
\* its recipients has status Bounced; a mail whose recipients are only
\* Deferred or not yet reported is never marked Bounced.
C35_BouncedHasBouncedRecipient ==
    \A m \in DOMAIN mails :
        mails[m].status = "Bounced"
            => \E e \in DOMAIN mails[m].recipients :
                  mails[m].recipients[e].status = "Bounced"

\* the step applies the deferred, bounce or delivered hook at the head of
\* the status queue
AppliesRecipientHook ==
    /\ goms.pc = "run"
    /\ statusq # <<>>
    /\ Head(statusq).hook \in RecipientHooks
    /\ statusq' = Tail(statusq)

\* C36 (Spec): applying a deferred, bounce or delivered hook changes status,
\* retries, action_at, action_after and details only of the recipients of
\* the targeted mail that the hook names; the other recipients of that
\* mail, and all other mails with their recipients, are left unchanged.
C36_HookFrame ==
    [][AppliesRecipientHook
          => \A m \in DOMAIN mails :
                /\ m \in DOMAIN mails'
                /\ m \notin Lookup(Head(statusq)) => mails'[m] = mails[m]
                /\ \A e \in DOMAIN mails[m].recipients :
                      e \notin Head(statusq).rcpts
                         => mails'[m].recipients[e] = mails[m].recipients[e]]_vars

\* a hook that named one of the two recipients of m1 has been applied: the
\* other recipient and the other mail are as they were
C36_Witness ==
    /\ mails["m1"].recipients["a"].status = "Deferred"
    /\ mails["m1"].recipients["b"] = BlankRecipient
    /\ mails["m2"].status = "Transferred"
    /\ mails["m2"].recipients["c"] = BlankRecipient
    /\ statusq = <<>>

\* the Incoming Mails that the pulls of a source have returned so far
ReturnedTo(source) == UNION {MailsOf(pulls[i]) : i \in Served(source)}

\* C37 (SpecCursor), as claimed: when all pulls of a (source, user, mailbox)
\* come without a last_synced_at argument and processed_at is unique per
\* receiver, a submitted Incoming Mail of the mailbox that no pull has
\* returned yet is still ahead of the stored cursor (processed_at >
\* last_synced_at), so that a later pull selects it. A mail behind the
\* cursor is selected by no later pull without argument, since such pulls
\* never move the cursor back. Two calls of now() give distinct instants:
\* a mail whose processed_at equals the cursor is left out of the statement.
C37_NoMailBehindCursor ==
    \A h \in DOMAIN histories :
        (/\ UniqueProcessedAt
         /\ \A i \in Served(histories[h].source) : pulls[i].arg = NULL)
           => \A i \in DOMAIN incoming :
                 (/\ incoming[i].docstatus = 1
                  /\ incoming[i].receiver = histories[h].mailbox
                  /\ i \notin ReturnedTo(histories[h].source)
                  /\ incoming[i].processed_at # histories[h].last_synced_at)
                    => \/ histories[h].last_synced_at = NULL
                       \/ incoming[i].processed_at > histories[h].last_synced_at

\* get_incoming_mails acks the message at the head of INCOMING_MAIL_QUEUE
Acks == gim.pc = "run" /\ inq # <<>> /\ inq' = Tail(inq)

\* C38 (SpecIntake), as claimed: every message with valid sender and
\* receiver that get_incoming_mails acks has produced at least one submitted
\* (docstatus = 1) Incoming Mail, accepted or rejected; a message whose
\* Incoming Mail could not be submitted is not acked.
C38_AckedHasSubmittedMail ==
    [][(Acks /\ Head(inq).valid)
          => \E i \in DOMAIN incoming' :
                /\ incoming'[i].msg = Head(inq).n
                /\ incoming'[i].docstatus = 1]_vars

\* C39 (FairSpecNewsletter), as claimed: every run of
\* process_newsletter_queue terminates; after a bulk insert that failed
\* (messages nacked and requeued) the run does not keep fetching and failing
\* on the same batch forever.
C39_NewsletterRunTerminates == (pnq.pc # "idle") ~> (pnq.pc = "idle")

====
